---- MODULE Spec2Model ----
(***************************************************************************)
(* Shielded-note lifecycle of the Ghost/Shadow privacy SDK.                *)
(*                                                                         *)
(*   NoteManager        the note map, the spent-nullifier map, save/load   *)
(*   EncryptedNoteStorage  the encrypted note file (whole-file rewrite)    *)
(*   GhostPrivacySDK    deposit / withdraw / transfer flows, one step per  *)
(*                      await point                                        *)
(*   SolanaPrivacyClient   the client's own Merkle tree and the ledger     *)
(*                      submissions                                        *)
(*                                                                         *)
(* Hashes are modelled as injective tagged tuples (collision-free), random *)
(* 32-byte secrets as fresh integers.                                      *)
(***************************************************************************)
EXTENDS Integers, Sequences, FiniteSets, TLC

\* ------------------------------------------------------------------ bounds

\* number of notes ever created (fresh secrets drawn)
MaxNotes == 3

\* notes created in the runs with backups and reloads
StoreNotes == 2

\* deposits made in the runs with concurrent calls
ConcDeposits == 2

\* encrypted saves that may be in flight at once
MaxPending == 1

\* encrypted saves in flight at once where their order of completion is examined
MaxOverlap == 2

\* loads in a new process
MaxRestarts == 1

\* import() calls
MaxImports == 1

\* export() calls
MaxExports == 1

Amounts == {1, 2}

Owners == {"alice", "bob"}

\* concurrent SDK calls (async tasks on the event loop)
Procs == {1, 2}

NoTx == "none"

TxSig == "sig"

\* createNote's optional txSignature argument
TxArgs == {NoTx, TxSig}

VARIABLES
    encrypted,      \* NoteManager.encryptedStorage && storagePassword
    notes,          \* NoteManager.notes: commitment -> ShieldedNote
    nullifiers,     \* keys of NoteManager.nullifiers
    nextSecret,     \* source of fresh secrets (crypto.randomBytes(32))
    disk,           \* notes.json / notes.enc
    pendingSaves,   \* encrypted saves whose key derivation has not finished
    backup,         \* last value returned by export()
    restarts,       \* loads done in a new process
    imports,        \* import() calls done
    exports,        \* export() calls done
    okSpends,       \* history: commitment -> number of spendNote calls that returned true
    lastSpend,      \* history: the last spendNote call and its result
    pc,             \* per SDK call: the await it is suspended at
    op,             \* per SDK call: its arguments and locals
    result,         \* per SDK call: how the last call ended
    clientTree,     \* SolanaPrivacyClient.merkleTree leaves
    sdkTree,        \* GhostPrivacySDK.merkleTree leaves
    treeFile,       \* merkle_tree.json leaves
    now,            \* relayer: Date.now()
    requestQueue,   \* relayer: origin -> timestamps of its recent requests
    processedNullifiers, \* relayer: nullifiers of the requests it has relayed
    rq,             \* relayer: per handler invocation, its request and position
    last,           \* relayer: the request answered last
    passedAt,       \* history: origin -> times in the last window at which its requests passed the rate check
    forwarded,      \* history: nullifiers sendAndConfirmTransaction was called for
    storagePassword, \* NoteManager.storagePassword of the running process
    encFile,        \* notes.enc: the EncryptedBlob
    lastSaved,      \* history: the notes and password of the saveNotes call that wrote notes.enc
    lastLoad,       \* history: the last initialize() -> load() and what it surfaced
    wipe,           \* history: what the last deleteAll() did to notes.enc, in order
    procEnv,        \* process.env: the variables that are set
    configFile,     \* the file at ConfigurationManager.configPath
    config,         \* ConfigurationManager.config: the cached configuration, or null
    lastConfigLoad, \* history: the last load() call and what it returned
    relayerUrl,     \* ShadowClient.relayerUrl: whether one is configured
    commitments,    \* ShadowClient.commitments, in insertion order
    shadowNullifiers, \* ShadowClient.nullifiers
    nextNonce,      \* source of fresh nonces (randomBytes(32))
    shadowCall,     \* the ShadowClient call in flight
    published,      \* history: instruction payloads and relayer requests sent out
    ceremonyState,  \* coordinator: phase, currentParticipant, participants, phase1Complete
    currentDir,     \* coordinator: files of data/current
    lastRequest,    \* history: the last coordinator request and its response
    pendingLimit,   \* encrypted saves the model lets be in flight at once
    sendCall        \* ShadowClient.sendAndConfirm: the call in flight or ended

storeVars == <<encrypted, notes, nullifiers, nextSecret, disk, pendingSaves,
               backup, restarts, imports, exports, okSpends, lastSpend>>

sdkVars == <<pc, op, result, clientTree, sdkTree, treeFile>>

relayVars == <<now, requestQueue, processedNullifiers, rq, last, passedAt, forwarded>>

encVars == <<storagePassword, encFile, lastSaved, lastLoad, wipe>>

cfgVars == <<procEnv, configFile, config, lastConfigLoad>>

shadowVars == <<relayerUrl, commitments, shadowNullifiers, nextNonce, shadowCall, published>>

cerVars == <<ceremonyState, currentDir, lastRequest>>

auxVars == <<cfgVars, shadowVars, cerVars, pendingLimit, sendCall>>

vars == <<storeVars, sdkVars, relayVars, encVars, auxVars>>

\* ------------------------------------------------------------------ hashes

\* NoteManager.generateCommitment: Poseidon(amount, secret, owner)
generateCommitment(amount, secret, owner) == <<"poseidon", amount, secret, owner>>

\* NoteManager.generateNullifier: Poseidon(secret, 'nullifier')
generateNullifier(secret) == <<"poseidon", secret, "nullifier">>

\* ------------------------------------------------------------------ helpers

EmptyMap == [c \in {} |-> 0]

NoFile == [exists |-> FALSE, notes |-> EmptyMap, nullifiers |-> {}]

MapSet(m, k, v) == [x \in DOMAIN m \cup {k} |-> IF x = k THEN v ELSE m[x]]

RECURSIVE SumAmounts(_, _)
SumAmounts(m, S) ==
    IF S = {} THEN 0
    ELSE LET c == CHOOSE x \in S : TRUE
         IN  m[c].amount + SumAmounts(m, S \ {c})

\* ------------------------------------------------------------------ NoteManager queries

isNullifierUsed(nf) == nf \in nullifiers

\* truthiness of note.txSignature
HasTx(n) == n.tx # NoTx

getUnspentNotes(owner) ==
    {c \in DOMAIN notes : notes[c].owner = owner /\ ~notes[c].spent /\ HasTx(notes[c])}

getBalance(owner) == SumAmounts(notes, getUnspentNotes(owner))

\* export(): entries of both maps
Export == [notes |-> notes, nullifiers |-> nullifiers]

\* ------------------------------------------------------------------ save / load

\* the bound on saves in flight: room for k more
CanSave(k) == ~encrypted \/ Cardinality(pendingSaves) + k <= pendingLimit

\* NoteManager.save() called with the maps n, nf: the plaintext branch writes
\* synchronously; the encrypted branch serialises the note values now and
\* writes after the key derivation
Save(n, nf) ==
    IF encrypted
    THEN /\ pendingSaves' = pendingSaves \cup {n}
         /\ disk' = disk
    ELSE /\ disk' = [exists |-> TRUE, notes |-> n, nullifiers |-> nf]
         /\ pendingSaves' = pendingSaves

\* the save() calls of one synchronous stretch, in call order, each a pair
\* <<notes, nullifiers>>
SaveAll(calls) ==
    IF calls = <<>>
    THEN UNCHANGED <<disk, pendingSaves>>
    ELSE IF encrypted
    THEN /\ pendingSaves' = pendingSaves \cup {calls[i][1] : i \in 1..Len(calls)}
         /\ disk' = disk
    ELSE /\ disk' = [exists |-> TRUE, notes |-> calls[Len(calls)][1],
                     nullifiers |-> calls[Len(calls)][2]]
         /\ pendingSaves' = pendingSaves

\* nullifiers rebuilt by load() from the decrypted notes
ReconstructNullifiers(n) ==
    {n[c].nullifier : c \in {x \in DOMAIN n : n[x].spent /\ HasTx(n[x])}}

\* ------------------------------------------------------------------ EncryptedNoteStorage

\* passwords a process may be constructed with
Passwords == {"pw1", "pw2"}

\* randomBytes(32) for the salt and randomBytes(16) for the iv: both are
\* stored in the blob and read back by decrypt, so one value stands for every draw
RandomSalt == "salt"

RandomIv == "iv"

\* scrypt(password, salt, 32)
deriveKey(password, salt) == <<"scrypt", password, salt>>

\* JSON.stringify of the notes: a note's txSignature, when undefined, is left out
stringify(n) ==
    [c \in DOMAIN n |->
        IF HasTx(n[c]) THEN n[c] ELSE [f \in DOMAIN n[c] \ {"tx"} |-> n[c][f]]]

\* JSON.parse of the notes: a note without txSignature reads it as undefined
parse(j) ==
    [c \in DOMAIN j |->
        IF "tx" \in DOMAIN j[c] THEN j[c]
        ELSE [f \in DOMAIN j[c] \cup {"tx"} |-> IF f = "tx" THEN NoTx ELSE j[c][f]]]

\* ciphertext and authentication tag of AES-256-GCM under key and iv
Sealed(key, iv, plain) == [key |-> key, iv |-> iv, plain |-> plain, tag |-> "ok"]

\* no notes.enc
NoBlob ==
    [exists |-> FALSE, whole |-> TRUE, iv |-> "none", salt |-> "none",
     data |-> Sealed("none", "none", EmptyMap)]

\* EncryptedNoteStorage.encrypt, as written to notes.enc by saveNotes
encrypt(data, password) ==
    [exists |-> TRUE, whole |-> TRUE, iv |-> RandomIv, salt |-> RandomSalt,
     data |-> Sealed(deriveKey(password, RandomSalt), RandomIv, data)]

\* decrypt that does not authenticate
decrypt_NoAuth(blob, password) == [ok |-> TRUE, plain |-> blob.data.plain]

\* EncryptedNoteStorage.decrypt: decipher.final() throws unless the tag
\* verifies under the key derived from the password and the blob's salt
decrypt(blob, password) ==
    IF /\ blob.data.key = deriveKey(password, blob.salt)
       /\ blob.data.iv = blob.iv
       /\ blob.data.tag = "ok"
    THEN [ok |-> TRUE, plain |-> blob.data.plain]
    ELSE [ok |-> FALSE, plain |-> EmptyMap]

\* EncryptedNoteStorage.loadNotes(password) on the file `blob`
loadNotes(blob, password) ==
    IF ~blob.exists
    THEN [res |-> "ok", notes |-> EmptyMap]
    ELSE IF ~blob.whole
    THEN [res |-> "DecryptionError", notes |-> EmptyMap]
    ELSE LET d == decrypt(blob, password)
         IN  IF d.ok THEN [res |-> "ok", notes |-> parse(d.plain)]
             ELSE [res |-> "DecryptionError", notes |-> EmptyMap]

NoSave == [by |-> "none", notes |-> EmptyMap, password |-> "none"]

NoLoad == [done |-> FALSE, existed |-> FALSE, res |-> "none", surfaced |-> "none"]

\* EncryptedNoteStorage.saveNotes after the await: notes.enc is rewritten in
\* place with the blob of the notes serialised when the call was made
SaveComplete(s) ==
    /\ s \in pendingSaves
    /\ encFile' = encrypt(stringify(s), storagePassword)
    /\ lastSaved' = [by |-> "save", notes |-> s, password |-> storagePassword]
    /\ pendingSaves' = pendingSaves \ {s}
    /\ UNCHANGED <<encrypted, notes, nullifiers, nextSecret, disk, backup, restarts,
                   imports, exports, okSpends, lastSpend>>
    /\ UNCHANGED sdkVars
    /\ UNCHANGED relayVars
    /\ UNCHANGED <<storagePassword, lastLoad, wipe>>
    /\ UNCHANGED auxVars

\* ------------------------------------------------------------------ NoteManager operations

\* the value export() returned: its note entries hold the note objects of the
\* map (live) until the caller serialises it, its nullifier entries are a copy
NoBackup == [taken |-> FALSE, live |-> FALSE, notes |-> EmptyMap, nullifiers |-> {}]

NoSpend == [c |-> <<>>, ok |-> FALSE, called |-> FALSE, cause |-> "none", returned |-> "none"]

Idle == "idle"

NoOp == [kind |-> "none", note |-> <<>>, amount |-> 0, nfUsed |-> FALSE,
         made |-> <<>>, leaf |-> <<>>, touched |-> FALSE]

\* relayer: handler invocations that may be suspended at the same time
Reqs == {1, 2}

\* relayer: req.ip
Origins == {"ip1", "ip2"}

\* relayer: values of the nullifier field of a request
Nullifiers == {"nf1", "nf2"}

\* a request body: the fields it carries, and the values the handler looks at
\* (len: instructionData.length, recipient: whether it is a valid address)
Body(fields, len, recipient, amount, nullifier) ==
    [fields |-> fields, len |-> len, recipient |-> recipient, amount |-> amount,
     nullifier |-> nullifier]

\* relayer: a handler slot with no request
NoReq == [pc |-> "free", body |-> Body({}, 0, "none", 0, "none"), stages |-> <<>>, outcome |-> "none",
          late |-> FALSE, over |-> FALSE, balance |-> 0]

\* ------------------------------------------------------------------ ConfigurationManager

\* truthiness of a string read from process.env or the file
Truthy(m, k) == k \in DOMAIN m /\ m[k] # ""

\* process.env.X || fileConfig.x || dflt, for strings
StrOr(env, name, file, field, dflt) ==
    IF Truthy(env, name) THEN env[name]
    ELSE IF Truthy(file, field) THEN file[field]
    ELSE dflt

\* process.env.X === 'true' || fileConfig.x || false
FlagOr(env, name, file, field) ==
    \/ name \in DOMAIN env /\ env[name] = "true"
    \/ field \in DOMAIN file /\ file[field]

\* parseInt on the numerals the environment holds
parseInt(str) ==
    CASE str = "0"     -> 0
      [] str = "3"     -> 3
      [] str = "5"     -> 5
      [] str = "50"    -> 50
      [] str = "80"    -> 80
      [] str = "30000" -> 30000

\* parseInt(process.env.X || 'dflt') || fileConfig.x || dflt
IntOr(env, name, file, field, dfltStr) ==
    LET fromEnv == parseInt(IF Truthy(env, name) THEN env[name] ELSE dfltStr)
    IN  IF fromEnv # 0 THEN fromEnv
        ELSE IF field \in DOMAIN file /\ file[field] # 0 THEN file[field]
        ELSE parseInt(dfltStr)

\* String.split(',') on the endpoint lists the environment holds
split(str) ==
    CASE str = ""      -> <<"">>
      [] str = "r1"    -> <<"r1">>
      [] str = "r1,r2" -> <<"r1", "r2">>

\* ConfigurationManager.getEnvironment
getEnvironment(env) ==
    IF Truthy(env, "GHOST_ENV") THEN env["GHOST_ENV"]
    ELSE IF Truthy(env, "NODE_ENV") THEN env["NODE_ENV"]
    ELSE "devnet"

\* ConfigurationManager.getDefaultRpcUrl
getDefaultRpcUrl(env) ==
    CASE getEnvironment(env) = "mainnet"  -> "https://api.mainnet-beta.solana.com"
      [] getEnvironment(env) = "testnet"  -> "https://api.testnet.solana.com"
      [] getEnvironment(env) = "localnet" -> "http://localhost:8899"
      [] OTHER                            -> "https://api.devnet.solana.com"

\* ConfigurationManager.mergeWithEnv(fileConfig), the sections of GhostConfig
\* written side by side
mergeWithEnv(env, file) ==
    [environment |-> StrOr(env, "GHOST_ENV", file, "environment", "devnet"),
     rpcUrl      |-> StrOr(env, "GHOST_RPC_URL", file, "rpcUrl", getDefaultRpcUrl(env)),
     programId   |-> StrOr(env, "GHOST_PROGRAM_ID", file, "programId", ""),
     commitment  |-> StrOr(env, "GHOST_COMMITMENT", file, "commitment", "confirmed"),
     transferCircuit      |-> StrOr(env, "GHOST_TRANSFER_CIRCUIT", file, "transferCircuit", ""),
     balanceCircuit       |-> StrOr(env, "GHOST_BALANCE_CIRCUIT", file, "balanceCircuit", ""),
     ringSignatureCircuit |-> StrOr(env, "GHOST_RING_SIG_CIRCUIT", file, "ringSignatureCircuit", ""),
     transferVK           |-> StrOr(env, "GHOST_TRANSFER_VK", file, "transferVK", ""),
     balanceVK            |-> StrOr(env, "GHOST_BALANCE_VK", file, "balanceVK", ""),
     ringSignatureVK      |-> StrOr(env, "GHOST_RING_SIG_VK", file, "ringSignatureVK", ""),
     enabled     |-> FlagOr(env, "GHOST_RELAYER_ENABLED", file, "enabled"),
     endpoints   |-> IF "GHOST_RELAYER_ENDPOINTS" \in DOMAIN env
                     THEN split(env["GHOST_RELAYER_ENDPOINTS"])
                     ELSE IF "endpoints" \in DOMAIN file THEN file["endpoints"]
                     ELSE <<>>,
     minReputation |-> IntOr(env, "GHOST_MIN_REPUTATION", file, "minReputation", "50"),
     timeout       |-> IntOr(env, "GHOST_RELAYER_TIMEOUT", file, "timeout", "30000"),
     requireCeremonyComplete  |-> FlagOr(env, "GHOST_REQUIRE_CEREMONY", file, "requireCeremonyComplete"),
     ceremonyVerificationHash |-> StrOr(env, "GHOST_CEREMONY_HASH", file, "ceremonyVerificationHash", ""),
     encryptNotes  |-> \/ ~("GHOST_ENCRYPT_NOTES" \in DOMAIN env /\ env["GHOST_ENCRYPT_NOTES"] = "false")
                       \/ ~("encryptNotes" \in DOMAIN file /\ file["encryptNotes"] = FALSE),
     maxTransactionRetries |-> IntOr(env, "GHOST_MAX_RETRIES", file, "maxTransactionRetries", "3")]

\* ConfigurationManager.validate: the errors it collects
validationErrors(c) ==
    (IF c.rpcUrl = "" THEN {"rpcUrl"} ELSE {})
        \cup (IF c.programId = "" THEN {"programId"} ELSE {})
        \cup (IF c.transferCircuit = "" THEN {"transferCircuit"} ELSE {})
        \cup (IF c.balanceCircuit = "" THEN {"balanceCircuit"} ELSE {})
        \cup (IF c.ringSignatureCircuit = "" THEN {"ringSignatureCircuit"} ELSE {})
        \cup (IF c.environment = "mainnet" /\ ~c.requireCeremonyComplete
               THEN {"requireCeremonyComplete"} ELSE {})
        \cup (IF c.environment = "mainnet" /\ c.ceremonyVerificationHash = ""
               THEN {"ceremonyVerificationHash"} ELSE {})
        \cup (IF c.environment = "mainnet" /\ ~c.encryptNotes THEN {"encryptNotes"} ELSE {})
        \cup (IF c.enabled /\ Len(c.endpoints) = 0 THEN {"endpoints"} ELSE {})

NoConfigFile == [exists |-> FALSE, value |-> EmptyMap]

\* this.config = null
NullConfig == [cached |-> FALSE, value |-> mergeWithEnv(EmptyMap, EmptyMap)]

NoConfigLoad == [called |-> FALSE, threw |-> FALSE, value |-> mergeWithEnv(EmptyMap, EmptyMap)]

\* the part of load() that follows the cache check: read, merge, cache, validate
ReadConfig ==
    LET c == mergeWithEnv(procEnv, IF configFile.exists THEN configFile.value ELSE EmptyMap)
    IN  /\ config' = [cached |-> TRUE, value |-> c]
        /\ lastConfigLoad' = [called |-> TRUE, threw |-> validationErrors(c) # {}, value |-> c]

cfgFrame ==
    /\ UNCHANGED <<storeVars, sdkVars, relayVars, encVars, shadowVars, cerVars, pendingLimit, sendCall>>
    /\ UNCHANGED <<procEnv, configFile>>

\* ConfigurationManager.load()
LoadConfig ==
    /\ IF config.cached
       THEN /\ lastConfigLoad' = [called |-> TRUE, threw |-> FALSE, value |-> config.value]
            /\ UNCHANGED config
       ELSE ReadConfig
    /\ cfgFrame

\* ConfigurationManager.reload()
ReloadConfig ==
    /\ ReadConfig
    /\ cfgFrame

\* a variable or field that may be missing, or hold one of `values`
Opt(name, values) == {EmptyMap} \cup {name :> v : v \in values}

\* the circuit paths, set in every environment
BaseEnv ==
    ("GHOST_TRANSFER_CIRCUIT" :> "transfer.wasm")
        @@ ("GHOST_BALANCE_CIRCUIT" :> "balance.wasm")
        @@ ("GHOST_RING_SIG_CIRCUIT" :> "ring.wasm")

\* environments a process is started in
Envs ==
    {BaseEnv @@ a @@ b @@ c @@ d @@ e @@ f :
        a \in Opt("GHOST_ENV", {"mainnet"}),
        b \in Opt("GHOST_PROGRAM_ID", {"Prog1"}),
        c \in Opt("GHOST_REQUIRE_CEREMONY", {"true", "false"}),
        d \in Opt("GHOST_CEREMONY_HASH", {"abc"}),
        e \in Opt("GHOST_MIN_REPUTATION", {"80", "0"}),
        f \in Opt("GHOST_ENCRYPT_NOTES", {"false"})}

\* configuration files found at configPath, and none
ConfigFiles ==
    {NoConfigFile} \cup
    {[exists |-> TRUE, value |-> a @@ b @@ c @@ d @@ e] :
        a \in Opt("environment", {"mainnet"}),
        b \in Opt("programId", {"Prog2"}),
        c \in Opt("requireCeremonyComplete", {TRUE, FALSE}),
        d \in Opt("minReputation", {80}),
        e \in Opt("encryptNotes", {FALSE})}

\* ------------------------------------------------------------------ ShadowClient

\* deposits a ShadowClient makes (fresh nonces drawn)
MaxShadowDeposits == 2

\* ShadowClient.privateKey and the identifier derived from it
ShadowKey == "privateKey"

ShadowId == <<"poseidon", ShadowKey>>

NoCommitment == [value |-> <<>>, nonce |-> 0, amount |-> 0]

NoShadowCall ==
    [pc |-> "idle", commitment |-> NoCommitment, nullifier |-> <<>>, amount |-> 0,
     error |-> "none"]

\* ShadowClient.generateCommitment: H(recipient, amount, nonce)
shadowCommitment(recipient, amount, nonce) ==
    [value |-> <<"poseidon", recipient, amount, nonce>>, nonce |-> nonce, amount |-> amount]

\* ShadowClient.generateNullifier: H(commitment, privateKey)
shadowNullifier(commitment) == <<"poseidon", commitment.value, ShadowKey>>

\* a payload that leaves the client; `spends` names the commitment a
\* withdrawal spends and is not part of the payload
Payload(kind, root, nullifier, commitment, amount, spends) ==
    [kind |-> kind, root |-> root, nullifier |-> nullifier, commitment |-> commitment,
     amount |-> amount, spends |-> spends, pool |-> <<>>]

\* ShadowClient.getPoolKeypair(amount): the keypair seeded with `pool-${amount}`
getPoolKeypair(amount) == <<"pool", amount>>

\* the instruction in a transaction whose first account is the pool
Transaction(pool, data) == [data EXCEPT !.pool = pool]

\* ShadowClient.encodeDepositInstruction(commitment, amount)
encodeDepositInstruction(commitment, amount) ==
    Payload("Deposit", <<>>, <<>>, commitment, amount, <<>>)

\* ShadowClient.encodeWithdrawInstruction(proof, root, nullifier, amount, recipient)
encodeWithdrawInstruction(root, nullifier, amount, spends) ==
    Payload("Withdraw", root, nullifier, <<>>, amount, spends)

\* the body withdraw() posts to the relayer
relayBody(commitment, nullifier, amount) ==
    Payload("RelayRequest", <<>>, nullifier, commitment.value, amount, commitment.value)

\* the first commitment of the map that covers the amount, 0 when none does
findCommitment(amount) ==
    LET F == {i \in 1..Len(commitments) : commitments[i].amount >= amount}
    IN  IF F = {} THEN 0 ELSE CHOOSE i \in F : \A j \in F : i <= j

shadowFrame ==
    /\ UNCHANGED <<storeVars, sdkVars, relayVars, encVars, cfgVars, cerVars, pendingLimit, sendCall>>
    /\ UNCHANGED relayerUrl

\* ShadowClient.deposit up to its first await: the commitment is generated
\* and put in the map
ShadowDeposit(amount) ==
    /\ shadowCall.pc = "idle"
    /\ nextNonce <= MaxShadowDeposits
    /\ LET c == shadowCommitment(ShadowId, amount, nextNonce)
       IN  /\ commitments' = Append(commitments, c)
           /\ shadowCall' = [pc |-> "dep_pool", commitment |-> c, nullifier |-> <<>>,
                             amount |-> amount, error |-> "none"]
    /\ nextNonce' = nextNonce + 1
    /\ UNCHANGED <<shadowNullifiers, published>>
    /\ shadowFrame

\* the pool account is read (and the pool initialised when missing): the
\* deposit instruction is built and sent
ShadowDepositSend ==
    /\ shadowCall.pc = "dep_pool"
    /\ published' = published \cup
            {Transaction(getPoolKeypair(shadowCall.amount),
                         encodeDepositInstruction(shadowCall.commitment.value,
                                                  shadowCall.amount))}
    /\ shadowCall' = [shadowCall EXCEPT !.pc = "dep_send"]
    /\ UNCHANGED <<commitments, shadowNullifiers, nextNonce>>
    /\ shadowFrame

\* an await of deposit resolves or rejects for the last time: deposit returns or throws
ShadowDepositEnd(ok) ==
    /\ shadowCall.pc \in {"dep_pool", "dep_send"}
    /\ shadowCall' = [NoShadowCall EXCEPT !.error = IF ok THEN "none" ELSE "LedgerError"]
    /\ ok => shadowCall.pc = "dep_send"
    /\ UNCHANGED <<commitments, shadowNullifiers, nextNonce, published>>
    /\ shadowFrame

\* ShadowClient.withdraw up to the proof request
ShadowWithdraw(amount) ==
    /\ shadowCall.pc = "idle"
    /\ LET i == findCommitment(amount)
       IN  IF i = 0
           THEN shadowCall' = [NoShadowCall EXCEPT !.error = "InsufficientBalance"]
           ELSE IF shadowNullifier(commitments[i]) \in shadowNullifiers
           THEN shadowCall' = [NoShadowCall EXCEPT !.error = "AlreadySpent"]
           ELSE shadowCall' = [pc |-> "prove", commitment |-> commitments[i],
                               nullifier |-> shadowNullifier(commitments[i]),
                               amount |-> amount, error |-> "none"]
    /\ UNCHANGED <<commitments, shadowNullifiers, nextNonce, published>>
    /\ shadowFrame

\* the proof is ready: the Withdraw instruction is built, and either posted
\* to the relayer in the request body or sent to the ledger
ShadowProofDone ==
    /\ shadowCall.pc = "prove"
    /\ LET c == shadowCall.commitment
           instruction == encodeWithdrawInstruction(c.value, shadowCall.nullifier,
                                                    shadowCall.amount, c.value)
           poolAddress == getPoolKeypair(shadowCall.amount)
       IN  published' = published \cup
                {Transaction(poolAddress,
                             IF relayerUrl
                             THEN relayBody(c, shadowCall.nullifier, shadowCall.amount)
                             ELSE instruction)}
    /\ shadowCall' = [shadowCall EXCEPT !.pc = "send"]
    /\ UNCHANGED <<commitments, shadowNullifiers, nextNonce>>
    /\ shadowFrame

\* generateTransferProof rejects: withdraw throws
ShadowProofFailed ==
    /\ shadowCall.pc = "prove"
    /\ shadowCall' = [NoShadowCall EXCEPT !.error = "ProofError"]
    /\ UNCHANGED <<commitments, shadowNullifiers, nextNonce, published>>
    /\ shadowFrame

\* the relayer answers ok, or the transaction is confirmed: the nullifier is
\* recorded and the commitment deleted
ShadowWithdrawConfirmed ==
    /\ shadowCall.pc = "send"
    /\ shadowNullifiers' = shadowNullifiers \cup {shadowCall.nullifier}
    /\ commitments' = SelectSeq(commitments, LAMBDA c : c.value # shadowCall.commitment.value)
    /\ shadowCall' = NoShadowCall
    /\ UNCHANGED <<nextNonce, published>>
    /\ shadowFrame

\* the relayer answers with an error, or the transaction fails: withdraw throws
ShadowWithdrawRejected ==
    /\ shadowCall.pc = "send"
    /\ shadowCall' = [NoShadowCall EXCEPT !.error = IF relayerUrl THEN "RelayerError" ELSE "LedgerError"]
    /\ UNCHANGED <<commitments, shadowNullifiers, nextNonce, published>>
    /\ shadowFrame

\* ------------------------------------------------------------------ ShadowClient.sendAndConfirm

\* let retries = 5
SendRetries == 5

\* errors an await of sendAndConfirm rejects with
SendErrors ==
    {"Signature has expired: block height exceeded", "Blockhash not found",
     "failed to get recent blockhash", "User rejected the request", "insufficient funds"}

\* the substrings sendAndConfirm looks for that the text of an error contains
Mentions(err) ==
    CASE err = "Signature has expired: block height exceeded" -> {"expired", "block height exceeded"}
      [] err = "Blockhash not found" -> {"Blockhash"}
      [] err = "failed to get recent blockhash" -> {"blockhash"}
      [] OTHER -> {}

\* the test of the catch block, with every error taken for a blockhash error
IsBlockhashError_Always(err) == TRUE

\* errString.includes('Blockhash') || includes('blockhash') || includes('expired')
\* || includes('block height exceeded')
IsBlockhashError(err) ==
    Mentions(err) \cap {"Blockhash", "blockhash", "expired", "block height exceeded"} # {}

\* the awaits of one attempt, in order
SendAwaits == <<"getLatestBlockhash", "signTransaction", "sendRawTransaction", "confirmTransaction">>

NoSendCall ==
    [pc |-> "idle", at |-> 0, retries |-> 0, attempts |-> 0, lastError |-> "none",
     result |-> "none"]

sendFrame == UNCHANGED <<storeVars, sdkVars, relayVars, encVars, cfgVars, shadowVars, cerVars,
                         pendingLimit>>

\* sendAndConfirm is called: retries = 5, the loop is entered
SendAndConfirm ==
    /\ sendCall.pc \in {"idle", "done"}
    /\ sendCall' = [pc |-> "await", at |-> 1, retries |-> SendRetries, attempts |-> 1,
                    lastError |-> "none", result |-> "none"]
    /\ sendFrame

\* the await the attempt is suspended at resolves: the next await, or the
\* signature is returned
AwaitResolved ==
    /\ sendCall.pc = "await"
    /\ sendCall' = IF sendCall.at < Len(SendAwaits)
                   THEN [sendCall EXCEPT !.at = @ + 1]
                   ELSE [sendCall EXCEPT !.pc = "done", !.result = "signature"]
    /\ sendFrame

\* the await rejects: the catch block counts a blockhash error and waits
\* before the next turn of the loop, and rethrows any other error
AwaitRejected(err) ==
    /\ sendCall.pc = "await"
    /\ sendCall' = IF IsBlockhashError(err)
                   THEN [sendCall EXCEPT !.pc = "wait", !.retries = @ - 1, !.lastError = err]
                   ELSE [sendCall EXCEPT !.pc = "done", !.lastError = err, !.result = err]
    /\ sendFrame

\* the 2 s timer fires: the loop condition is tested, then the next attempt
\* starts or lastError is thrown
RetryTimer ==
    /\ sendCall.pc = "wait"
    /\ sendCall' = IF sendCall.retries > 0
                   THEN [sendCall EXCEPT !.pc = "await", !.at = 1, !.attempts = @ + 1]
                   ELSE [sendCall EXCEPT !.pc = "done", !.result = sendCall.lastError]
    /\ sendFrame

\* ------------------------------------------------------------------ ceremony coordinator

\* participants that register
MaxParticipants == 2

\* participant ids (crypto.randomBytes(16)), and an id nobody was given
ParticipantIds == 1..(MaxParticipants + 1)

\* uploaded files: the extension of originalname (the fileFilter admits
\* .ptau and .zkey only) and whether snarkjs finds the contribution valid
Uploads == [ext : {"ptau", "zkey"}, valid : BOOLEAN]

\* loadState() without a state file
InitialCeremonyState ==
    [phase |-> "phase1", currentParticipant |-> 0, participants |-> <<>>,
     phase1Complete |-> FALSE]

NoRequest == [kind |-> "none", id |-> 0, status |-> 0, error |-> "none"]

Response(kind, id, status, error) ==
    [kind |-> kind, id |-> id, status |-> status, error |-> error]

\* the file name stem of a phase
Stem(phase) ==
    CASE phase = "phase1" -> "pot20"
      [] phase = "phase2_transfer" -> "transfer"
      [] phase = "phase2_balance" -> "balance"
      [] phase = "phase2_ring" -> "ring_sig"

\* ceremonyState.participants.find(p => p.id === participantId) finds one
Registered(id) ==
    \E i \in 1..Len(ceremonyState.participants) : ceremonyState.participants[i].id = id

\* the turn check of download and upload, with every participant admitted
IsTurn_Anyone(id) == TRUE

\* nextParticipant && nextParticipant.id === participantId
IsTurn(id) ==
    /\ ceremonyState.currentParticipant + 1 <= Len(ceremonyState.participants)
    /\ ceremonyState.participants[ceremonyState.currentParticipant + 1].id = id

\* execSync(verifyCmd) that never throws
execSyncVerify_NeverThrows(file) == TRUE

\* execSync(verifyCmd) returns: snarkjs powersoftau verify for a .ptau, snarkjs
\* zkey verify against the r1cs of the phase and pot20_final.ptau for a .zkey
execSyncVerify(file) ==
    IF file.ext = "ptau" THEN file.valid
    ELSE /\ ceremonyState.phase \in {"phase2_transfer", "phase2_balance", "phase2_ring"}
         /\ currentDir.final
         /\ file.valid

cerFrame == UNCHANGED <<storeVars, sdkVars, relayVars, encVars, cfgVars, shadowVars, pendingLimit, sendCall>>

\* POST /api/register
Register(named) ==
    /\ Len(ceremonyState.participants) < MaxParticipants
    /\ LET id == Len(ceremonyState.participants) + 1
       IN  IF ~named
           THEN /\ lastRequest' = Response("register", 0, 400, "Name and email required")
                /\ UNCHANGED ceremonyState
           ELSE /\ ceremonyState' = [ceremonyState EXCEPT !.participants =
                        Append(@, [id |-> id, contribution |-> <<>>, verified |-> FALSE])]
                /\ lastRequest' = Response("register", id, 200, "none")
    /\ UNCHANGED currentDir
    /\ cerFrame

\* GET /api/download/current
Download(id) ==
    /\ lastRequest' =
          IF ~Registered(id) THEN Response("download", id, 403, "Invalid participant ID")
          ELSE IF ~IsTurn(id) THEN Response("download", id, 403, "Not your turn yet")
          ELSE IF <<Stem(ceremonyState.phase), ceremonyState.currentParticipant>>
                      \notin currentDir.files
          THEN Response("download", id, 404, "Current contribution file not found")
          ELSE Response("download", id, 200, "none")
    /\ UNCHANGED <<ceremonyState, currentDir>>
    /\ cerFrame

\* POST /api/upload/contribution with a file
Upload(id, file) ==
    /\ IF ~Registered(id)
       THEN /\ lastRequest' = Response("upload", id, 403, "Invalid participant ID")
            /\ UNCHANGED <<ceremonyState, currentDir>>
       ELSE IF ~IsTurn(id)
       THEN /\ lastRequest' = Response("upload", id, 403, "Not your turn yet")
            /\ UNCHANGED <<ceremonyState, currentDir>>
       ELSE IF ~execSyncVerify(file)
       THEN /\ lastRequest' = Response("upload", id, 400, "Contribution verification failed")
            /\ UNCHANGED <<ceremonyState, currentDir>>
       ELSE LET nextNum == ceremonyState.currentParticipant + 1
                nextFilename == <<Stem(ceremonyState.phase), nextNum>>
            IN  /\ currentDir' = [currentDir EXCEPT !.files = @ \cup {nextFilename}]
                /\ ceremonyState' =
                      [ceremonyState EXCEPT
                          !.participants[nextNum].contribution = nextFilename,
                          !.participants[nextNum].verified = TRUE,
                          !.currentParticipant = nextNum]
                /\ lastRequest' = Response("upload", id, 200, "none")
    /\ cerFrame

\* POST /api/upload/contribution without a file
UploadNothing(id) ==
    /\ lastRequest' = Response("upload", id, 400, "No file uploaded")
    /\ UNCHANGED <<ceremonyState, currentDir>>
    /\ cerFrame

\* POST /api/coordinator/initialize
Initialize(authorized) ==
    /\ IF ~authorized
       THEN /\ lastRequest' = Response("initialize", 0, 403, "Unauthorized")
            /\ UNCHANGED <<ceremonyState, currentDir>>
       ELSE /\ currentDir' = [currentDir EXCEPT !.files = @ \cup {<<"pot20", 0>>}]
            /\ ceremonyState' = [ceremonyState EXCEPT !.phase = "phase1",
                                                     !.currentParticipant = 0]
            /\ lastRequest' = Response("initialize", 0, 200, "none")
    /\ cerFrame

\* POST /api/coordinator/finalize-phase1: the beacon is applied to the file
\* of currentParticipant (execSync throws when it is missing)
FinalizePhase1(authorized) ==
    /\ IF ~authorized
       THEN /\ lastRequest' = Response("finalize", 0, 403, "Unauthorized")
            /\ UNCHANGED <<ceremonyState, currentDir>>
       ELSE IF <<"pot20", ceremonyState.currentParticipant>> \notin currentDir.files
       THEN /\ lastRequest' = Response("finalize", 0, 500, "Command failed")
            /\ UNCHANGED <<ceremonyState, currentDir>>
       ELSE /\ currentDir' = [currentDir EXCEPT !.final = TRUE]
            /\ ceremonyState' = [ceremonyState EXCEPT !.phase1Complete = TRUE,
                                                     !.phase = "phase2_transfer",
                                                     !.currentParticipant = 0]
            /\ lastRequest' = Response("finalize", 0, 200, "none")
    /\ cerFrame

\* POST /api/coordinator/init-phase2 for the transfer circuit (groth16 setup
\* throws without pot20_final.ptau)
InitPhase2(authorized) ==
    /\ IF ~authorized
       THEN /\ lastRequest' = Response("init-phase2", 0, 403, "Unauthorized")
            /\ UNCHANGED currentDir
       ELSE IF ~currentDir.final
       THEN /\ lastRequest' = Response("init-phase2", 0, 500, "Command failed")
            /\ UNCHANGED currentDir
       ELSE /\ currentDir' = [currentDir EXCEPT !.files = @ \cup {<<"transfer", 0>>}]
            /\ lastRequest' = Response("init-phase2", 0, 200, "none")
    /\ UNCHANGED ceremonyState
    /\ cerFrame

\* the coordinator started on an empty data directory
InitCeremony ==
    /\ ceremonyState = InitialCeremonyState
    /\ currentDir = [files |-> {}, final |-> FALSE]
    /\ lastRequest = NoRequest

\* the note store, the SDK and the relayer after construction
InitCore ==
    /\ encrypted \in BOOLEAN
    /\ notes = EmptyMap
    /\ nullifiers = {}
    /\ nextSecret = 1
    /\ disk = NoFile
    /\ pendingSaves = {}
    /\ backup = NoBackup
    /\ restarts = 0
    /\ imports = 0
    /\ exports = 0
    /\ okSpends = EmptyMap
    /\ lastSpend = NoSpend
    /\ pc = [p \in Procs |-> Idle]
    /\ op = [p \in Procs |-> NoOp]
    /\ result = [p \in Procs |-> "none"]
    /\ clientTree = <<>>
    /\ sdkTree = <<>>
    /\ treeFile = <<>>
    /\ now = 0
    /\ requestQueue = [ip \in Origins |-> <<>>]
    /\ processedNullifiers = {}
    /\ rq = [r \in Reqs |-> NoReq]
    /\ last = NoReq
    /\ passedAt = [ip \in Origins |-> <<>>]
    /\ forwarded = {}
    /\ storagePassword = "pw1"
    /\ encFile = NoBlob
    /\ lastSaved = NoSave
    /\ lastLoad = NoLoad
    /\ wipe = <<>>
    /\ InitCeremony
    /\ sendCall = NoSendCall

\* no environment variable set, no configuration file, nothing loaded
InitNoConfig ==
    /\ procEnv = EmptyMap
    /\ configFile = NoConfigFile
    /\ config = NullConfig
    /\ lastConfigLoad = NoConfigLoad

\* a ShadowClient without relayer
InitNoShadow ==
    /\ relayerUrl = FALSE
    /\ commitments = <<>>
    /\ shadowNullifiers = {}
    /\ nextNonce = 1
    /\ shadowCall = NoShadowCall
    /\ published = {}

Init == InitCore /\ InitNoConfig /\ InitNoShadow /\ pendingLimit = MaxPending

\* an encrypted note store whose saves may overlap
InitSaves == InitCore /\ InitNoConfig /\ InitNoShadow /\ encrypted /\ pendingLimit = MaxOverlap

\* a ShadowClient constructed with or without relayerUrl
InitShadow ==
    /\ InitCore
    /\ InitNoConfig
    /\ pendingLimit = MaxPending
    /\ relayerUrl \in BOOLEAN
    /\ commitments = <<>>
    /\ shadowNullifiers = {}
    /\ nextNonce = 1
    /\ shadowCall = NoShadowCall
    /\ published = {}

\* a process started in one of the environments, with one of the files
InitConfig ==
    /\ InitCore
    /\ InitNoShadow
    /\ pendingLimit = MaxPending
    /\ procEnv \in Envs
    /\ configFile \in ConfigFiles
    /\ config = NullConfig
    /\ lastConfigLoad = NoConfigLoad

\* the note createNote builds from a fresh secret
NewNote(amount, owner, tx) ==
    [commitment |-> generateCommitment(amount, nextSecret, owner),
     nullifier  |-> generateNullifier(nextSecret),
     amount     |-> amount,
     secret     |-> nextSecret,
     owner      |-> owner,
     spent      |-> FALSE,
     tx         |-> tx]

\* this.notes.set(commitment, note)
NotesWith(n, note) == MapSet(n, note.commitment, note)

\* NoteManager.createNote(amount, owner, txSignature)
CreateNote(amount, owner, tx) ==
    /\ nextSecret <= MaxNotes
    /\ CanSave(1)
    /\ LET note == NewNote(amount, owner, tx)
       IN  /\ notes' = NotesWith(notes, note)
           /\ okSpends' = MapSet(okSpends, note.commitment, 0)
           /\ Save(notes', nullifiers)
    /\ nextSecret' = nextSecret + 1
    /\ UNCHANGED <<encrypted, nullifiers, backup, restarts, imports, exports, lastSpend>>
    /\ UNCHANGED sdkVars
    /\ UNCHANGED relayVars
    /\ UNCHANGED <<encVars, auxVars>>

\* spendNote without its spent and nullifier checks
SpendRejected_NoChecks(n, nf, c) == c \notin DOMAIN n

\* the early returns of spendNote: note not found, already spent, nullifier used
SpendRejected(n, nf, c) ==
    \/ c \notin DOMAIN n
    \/ n[c].spent
    \/ n[c].nullifier \in nf

\* the check of spendNote that fails first, as its console.error names it
SpendFailure(n, nf, c) ==
    IF c \notin DOMAIN n THEN "NoteNotFound"
    ELSE IF n[c].spent THEN "NoteAlreadySpent"
    ELSE IF n[c].nullifier \in nf THEN "NullifierAlreadyUsed"
    ELSE "none"

\* the boolean spendNote returns
spendNoteReturn(n, nf, c) == IF SpendRejected(n, nf, c) THEN "false" ELSE "true"

\* what the caller of spendNote gets, and the check that failed
Spent(n, nf, c) ==
    [c |-> c, ok |-> ~SpendRejected(n, nf, c), called |-> TRUE,
     cause |-> SpendFailure(n, nf, c), returned |-> spendNoteReturn(n, nf, c)]

\* note.spent = true
MarkSpent(n, c) == [n EXCEPT ![c].spent = TRUE]

\* this.nullifiers.set(note.nullifier, ...)
RecordNullifier(n, nf, c) == nf \cup {n[c].nullifier}

\* NoteManager.spendNote(commitment, txSignature)
SpendNote(c, sig) ==
    /\ c \in DOMAIN okSpends
    /\ IF SpendRejected(notes, nullifiers, c)
       THEN /\ lastSpend' = Spent(notes, nullifiers, c)
            /\ UNCHANGED <<notes, nullifiers, okSpends, disk, pendingSaves>>
       ELSE /\ CanSave(1)
            /\ notes' = MarkSpent(notes, c)
            /\ nullifiers' = RecordNullifier(notes, nullifiers, c)
            /\ okSpends' = [okSpends EXCEPT ![c] = @ + 1]
            /\ lastSpend' = Spent(notes, nullifiers, c)
            /\ Save(notes', nullifiers')
    /\ UNCHANGED <<encrypted, nextSecret, backup, restarts, imports, exports>>
    /\ UNCHANGED sdkVars
    /\ UNCHANGED relayVars
    /\ UNCHANGED <<encVars, auxVars>>

\* the notes of the backup: a live backup shows the note objects as they are now
BackupNotes ==
    IF backup.live THEN [c \in DOMAIN backup.notes |-> notes[c]] ELSE backup.notes

\* NoteManager.export(), kept by the caller as a backup, in memory or serialised
ExportNotes ==
    /\ exports < MaxExports
    /\ \E live \in BOOLEAN :
            backup' = [taken |-> TRUE, live |-> live,
                       notes |-> Export.notes, nullifiers |-> Export.nullifiers]
    /\ exports' = exports + 1
    /\ UNCHANGED <<encrypted, notes, nullifiers, nextSecret, disk, pendingSaves,
                   restarts, imports, okSpends, lastSpend>>
    /\ UNCHANGED sdkVars
    /\ UNCHANGED relayVars
    /\ UNCHANGED <<encVars, auxVars>>

\* NoteManager.import(data) with a backup taken earlier
ImportNotes ==
    /\ imports < MaxImports
    /\ backup.taken
    /\ CanSave(1)
    /\ notes' = BackupNotes
    /\ nullifiers' = backup.nullifiers
    /\ Save(notes', nullifiers')
    /\ imports' = imports + 1
    /\ UNCHANGED <<encrypted, nextSecret, backup, restarts, exports, okSpends, lastSpend>>
    /\ UNCHANGED sdkVars
    /\ UNCHANGED relayVars
    /\ UNCHANGED <<encVars, auxVars>>

\* NoteManager.load() in a new process, on the files it finds: the maps start
\* empty, and a loadNotes that throws is caught and logged
Loaded(blob, password) ==
    LET r == loadNotes(blob, password)
    IN  IF encrypted
        THEN [notes      |-> r.notes,
              nullifiers |-> IF r.res = "ok" THEN ReconstructNullifiers(r.notes) ELSE {},
              existed    |-> blob.exists,
              res        |-> r.res,
              surfaced   |-> "none"]
        ELSE [notes      |-> IF disk.exists THEN disk.notes ELSE EmptyMap,
              nullifiers |-> IF disk.exists THEN disk.nullifiers ELSE {},
              existed    |-> disk.exists,
              res        |-> "ok",
              surfaced   |-> "none"]

\* a new process on the file `blob`: constructor with `password`, then initialize()
NewProcess(blob, password) ==
    LET l == Loaded(blob, password)
    IN  /\ restarts < MaxRestarts
        /\ restarts' = restarts + 1
        /\ storagePassword' = password
        /\ notes' = l.notes
        /\ nullifiers' = l.nullifiers
        /\ lastLoad' = [done |-> TRUE, existed |-> l.existed, res |-> l.res,
                        surfaced |-> l.surfaced]
        /\ pc' = [p \in Procs |-> Idle]
        /\ op' = [p \in Procs |-> NoOp]
        /\ result' = [p \in Procs |-> "none"]
        /\ clientTree' = treeFile
        /\ sdkTree' = treeFile
        /\ backup' = [backup EXCEPT !.live = FALSE, !.notes = BackupNotes]
        /\ UNCHANGED <<encrypted, nextSecret, disk, imports, exports, okSpends,
                       lastSpend, treeFile, wipe>>
        /\ UNCHANGED relayVars
        /\ UNCHANGED auxVars

\* a new process constructed with `password`, after the old process has
\* finished its saves and serialised the backup it held
RestartWith(password) ==
    /\ pendingSaves = {}
    /\ NewProcess(encFile, password)
    /\ UNCHANGED <<pendingSaves, encFile, lastSaved>>

\* a new process with the configuration of the old one
Restart == RestartWith(storagePassword)

\* what a process killed inside fs.writeFileSync(notes.enc) leaves: the old
\* file, a truncated file, or the new file
Interrupted(s, left) ==
    CASE left = "old"  -> encFile
      [] left = "part" -> [encrypt(stringify(s), storagePassword) EXCEPT !.whole = FALSE]
      [] left = "new"  -> encrypt(stringify(s), storagePassword)

\* the process is killed while saveNotes writes notes.enc for the save s, and
\* a new process is started with `password`
CrashInSave(s, left, password) ==
    /\ s \in pendingSaves
    /\ encFile' = Interrupted(s, left)
    /\ lastSaved' = CASE left = "old"  -> lastSaved
                      [] left = "part" -> [by |-> "crash", notes |-> s, password |-> storagePassword]
                      [] left = "new"  -> [by |-> "save", notes |-> s, password |-> storagePassword]
    /\ pendingSaves' = {}
    /\ NewProcess(encFile', password)

\* notes.enc is damaged on the disk
CorruptFile ==
    /\ encFile.exists
    /\ encFile.whole
    /\ encFile.data.tag = "ok"
    /\ encFile' = [encFile EXCEPT !.data.tag = "bad"]
    /\ lastSaved' = [lastSaved EXCEPT !.by = "damage"]
    /\ UNCHANGED storeVars
    /\ UNCHANGED sdkVars
    /\ UNCHANGED relayVars
    /\ UNCHANGED <<storagePassword, lastLoad, wipe>>
    /\ UNCHANGED auxVars

\* deleteAll with the overwrite after the removal
deleteAllSteps_UnlinkFirst == <<"unlink", "random">>

\* what deleteAll does to an existing notes.enc: writeFileSync(randomBytes(size)),
\* then unlinkSync
deleteAllSteps == <<"random", "unlink">>

\* EncryptedNoteStorage.deleteAll()
DeleteAll ==
    /\ encFile.exists
    /\ wipe' = deleteAllSteps
    /\ encFile' = IF wipe'[Len(wipe')] = "unlink" THEN NoBlob
                  ELSE [encFile EXCEPT !.data.tag = "bad"]
    /\ lastSaved' = NoSave
    /\ UNCHANGED storeVars
    /\ UNCHANGED sdkVars
    /\ UNCHANGED relayVars
    /\ UNCHANGED <<storagePassword, lastLoad>>
    /\ UNCHANGED auxVars

\* ------------------------------------------------------------------ Merkle tree files and the client

\* SolanaPrivacyClient.generateCommitment: sha256(`${amount}:${secret}`)
clientCommitment(amount, secret) == <<"sha256", amount, secret>>

\* the new commitment a withdrawal puts in its proof request and in its
\* instruction: generateCommitment(0, secret) of the note it spends
changeCommitment(note) == clientCommitment(0, note.secret)

\* MerkleTree.insert: the leaf is appended, its index is the array position
TreeInsert(tree, leaf) == Append(tree, leaf)

Leaves(tree) == {tree[i] : i \in 1..Len(tree)}

\* GhostPrivacySDK.findCommitmentIndex: first position of the leaf, or -1
findCommitmentIndex(tree, c) ==
    IF c \in Leaves(tree)
    THEN (CHOOSE i \in 1..Len(tree) : tree[i] = c /\ \A j \in 1..(i - 1) : tree[j] # c) - 1
    ELSE -1

\* SolanaPrivacyClient.findCommitmentIndex: the loop body is empty, 0 is returned
clientFindCommitmentIndex(tree, c) == 0

\* ------------------------------------------------------------------ GhostPrivacySDK calls

\* notes the caller holds a reference to: returned by deposit(), by
\* privateTransfer() or by getNotes(), all of which carry a txSignature
Handed == {c \in DOMAIN notes : HasTx(notes[c])}

SpendKinds == {"withdraw", "relayer", "toWallet", "privateTransfer"}

\* awaits of a spend: proof generation, then the ledger or the relayer
ProvePcs == {"wd_prove", "rl_prove", "tw_prove", "pt_prove", "pt_ring"}

SendPcs == {"wd_send", "rl_send", "tw_send", "pt_send"}

Begin(p, kind, c, amount, made, leaf, touched) ==
    /\ op' = [op EXCEPT ![p] =
                [kind |-> kind, note |-> c, amount |-> amount,
                 nfUsed |-> IF c \in DOMAIN notes
                            THEN isNullifierUsed(notes[c].nullifier) ELSE FALSE,
                 made |-> made, leaf |-> leaf, touched |-> touched]]

\* the call throws before its first await
Throw(p, err) ==
    /\ result' = [result EXCEPT ![p] = err]
    /\ UNCHANGED <<pc, op>>

\* the call reaches an await
Suspend(p, label) ==
    /\ pc' = [pc EXCEPT ![p] = label]
    /\ result' = [result EXCEPT ![p] = "none"]

\* a suspended call moves on to its next await
Goto(p, label) ==
    /\ pc' = [pc EXCEPT ![p] = label]
    /\ UNCHANGED result

\* a suspended call ends: returns or throws
End(p, res) ==
    /\ pc' = [pc EXCEPT ![p] = Idle]
    /\ op' = [op EXCEPT ![p] = NoOp]
    /\ result' = [result EXCEPT ![p] = res]

\* the task slot a new call takes: the lowest one that is free
Free(p) == pc[p] = Idle /\ \A q \in Procs : q < p => pc[q] # Idle

storeFrame == UNCHANGED <<encrypted, backup, restarts, imports, exports>>

\* GhostPrivacySDK.deposit up to the await in SolanaPrivacyClient.deposit:
\* createNote, then the client inserts its own commitment into its tree
Deposit(p, amount, owner) ==
    /\ Free(p)
    /\ nextSecret <= MaxNotes
    /\ CanSave(1)
    /\ LET note == NewNote(amount, owner, NoTx)
           leaf == clientCommitment(amount, note.secret)
       IN  /\ notes' = NotesWith(notes, note)
           /\ okSpends' = MapSet(okSpends, note.commitment, 0)
           /\ Save(notes', nullifiers)
           /\ clientTree' = TreeInsert(clientTree, leaf)
           /\ Begin(p, "deposit", <<>>, amount, note.commitment, leaf, TRUE)
    /\ nextSecret' = nextSecret + 1
    /\ Suspend(p, "dep_send")
    /\ storeFrame
    /\ UNCHANGED <<nullifiers, lastSpend, sdkTree, treeFile>>
    /\ UNCHANGED relayVars
    /\ UNCHANGED <<encVars, auxVars>>

\* sendAndConfirmTransaction resolves: the client saves its tree, the SDK
\* sets note.txSignature on the object held by the note map (no save)
DepositConfirmed(p) ==
    /\ pc[p] = "dep_send"
    /\ treeFile' = clientTree
    /\ notes' = [notes EXCEPT ![op[p].made].tx = TxSig]
    /\ End(p, "ok")
    /\ storeFrame
    /\ UNCHANGED <<nullifiers, nextSecret, disk, pendingSaves, okSpends, lastSpend,
                   clientTree, sdkTree>>
    /\ UNCHANGED relayVars
    /\ UNCHANGED <<encVars, auxVars>>

\* sendAndConfirmTransaction rejects: deposit throws
DepositFailed(p) ==
    /\ pc[p] = "dep_send"
    /\ End(p, "LedgerError")
    /\ UNCHANGED storeVars
    /\ UNCHANGED <<clientTree, sdkTree, treeFile>>
    /\ UNCHANGED relayVars
    /\ UNCHANGED <<encVars, auxVars>>

\* GhostPrivacySDK.withdraw up to the proof request of SolanaPrivacyClient.withdraw
Withdraw(p, c, amount) ==
    /\ Free(p)
    /\ c \in Handed
    /\ IF notes[c].spent
       THEN Throw(p, "AlreadySpent")
       ELSE IF clientFindCommitmentIndex(clientTree, c) >= Len(clientTree)
       THEN Throw(p, "IndexOutOfRange")
       ELSE /\ Begin(p, "withdraw", c, amount, <<>>, <<>>, FALSE)
            /\ Suspend(p, "wd_prove")
    /\ UNCHANGED storeVars
    /\ UNCHANGED <<clientTree, sdkTree, treeFile>>
    /\ UNCHANGED relayVars
    /\ UNCHANGED <<encVars, auxVars>>

\* GhostPrivacySDK.transferToWallet up to the proof request
TransferToWallet(p, c, amount) ==
    /\ Free(p)
    /\ c \in Handed
    /\ IF notes[c].spent
       THEN Throw(p, "AlreadySpent")
       ELSE IF notes[c].amount - amount < 0
       THEN Throw(p, "InsufficientBalance")
       ELSE IF clientFindCommitmentIndex(clientTree, c) >= Len(clientTree)
       THEN Throw(p, "IndexOutOfRange")
       ELSE /\ Begin(p, "toWallet", c, amount, <<>>, <<>>, FALSE)
            /\ Suspend(p, "tw_prove")
    /\ UNCHANGED storeVars
    /\ UNCHANGED <<clientTree, sdkTree, treeFile>>
    /\ UNCHANGED relayVars
    /\ UNCHANGED <<encVars, auxVars>>

\* GhostPrivacySDK.withdrawViaRelayer up to the proof request
WithdrawViaRelayer(p, c, amount) ==
    /\ Free(p)
    /\ c \in Handed
    /\ IF notes[c].spent
       THEN Throw(p, "AlreadySpent")
       ELSE IF findCommitmentIndex(sdkTree, c) = -1
       THEN Throw(p, "NotInTree")
       ELSE /\ Begin(p, "relayer", c, amount, <<>>, <<>>, FALSE)
            /\ Suspend(p, "rl_prove")
    /\ UNCHANGED storeVars
    /\ UNCHANGED <<clientTree, sdkTree, treeFile>>
    /\ UNCHANGED relayVars
    /\ UNCHANGED <<encVars, auxVars>>

\* GhostPrivacySDK.privateTransfer up to the proof request: the recipient's
\* note is created and the tree reloaded before the commitment is looked up
PrivateTransfer(p, c, toOwner, amount) ==
    /\ Free(p)
    /\ c \in Handed
    /\ IF notes[c].amount - amount < 0
       THEN /\ Throw(p, "InsufficientBalance")
            /\ UNCHANGED storeVars
            /\ UNCHANGED <<clientTree, sdkTree, treeFile>>
       ELSE /\ nextSecret <= MaxNotes
            /\ CanSave(1)
            /\ LET newNote == NewNote(amount, toOwner, NoTx)
               IN  /\ notes' = NotesWith(notes, newNote)
                   /\ okSpends' = MapSet(okSpends, newNote.commitment, 0)
                   /\ Save(notes', nullifiers)
                   /\ sdkTree' = treeFile
                   /\ IF findCommitmentIndex(sdkTree', c) = -1
                      THEN Throw(p, "NotInTree")
                      ELSE /\ Begin(p, "privateTransfer", c, amount,
                                    newNote.commitment, <<>>, TRUE)
                           /\ Suspend(p, "pt_prove")
            /\ nextSecret' = nextSecret + 1
            /\ storeFrame
            /\ UNCHANGED <<nullifiers, lastSpend, clientTree, treeFile>>
    /\ UNCHANGED relayVars
    /\ UNCHANGED <<encVars, auxVars>>

\* the await that follows a proof
AfterProof(label) ==
    CASE label = "wd_prove" -> "wd_send"
      [] label = "tw_prove" -> "tw_send"
      [] label = "rl_prove" -> "rl_send"
      [] label = "pt_prove" -> "pt_ring"
      [] label = "pt_ring"  -> "pt_send"

\* the prover returns a proof; the call builds the instruction and submits it
\* (the transfer proof of a private transfer is followed by the ring proof)
ProofDone(p) ==
    /\ pc[p] \in ProvePcs
    /\ Goto(p, AfterProof(pc[p]))
    /\ UNCHANGED storeVars
    /\ UNCHANGED <<op, clientTree, sdkTree, treeFile>>
    /\ UNCHANGED relayVars
    /\ UNCHANGED <<encVars, auxVars>>

\* the prover fails: the call throws
ProofFailed(p) ==
    /\ pc[p] \in ProvePcs
    /\ End(p, "ProofError")
    /\ UNCHANGED storeVars
    /\ UNCHANGED <<clientTree, sdkTree, treeFile>>
    /\ UNCHANGED relayVars
    /\ UNCHANGED <<encVars, auxVars>>

\* the ledger rejects the transaction, or the relayer answers with an error
SendRejected(p) ==
    /\ pc[p] \in SendPcs
    /\ End(p, IF pc[p] = "rl_send" THEN "RelayerError" ELSE "LedgerError")
    /\ UNCHANGED storeVars
    /\ UNCHANGED <<clientTree, sdkTree, treeFile>>
    /\ UNCHANGED relayVars
    /\ UNCHANGED <<encVars, auxVars>>

\* spendNote(c, sig) on the note map `base` inside an SDK call, its return
\* value ignored, followed by createNote for each note of `created`
\* (commitment -> note as saved); `final` holds those notes once the call has
\* set their txSignature
SpendThenCreate(base, c, created, final) ==
    LET rej == SpendRejected(base, nullifiers, c)
        n1  == IF rej THEN base ELSE MarkSpent(base, c)
        nf1 == IF rej THEN nullifiers ELSE RecordNullifier(base, nullifiers, c)
        n2  == [x \in DOMAIN n1 \cup DOMAIN created |->
                    IF x \in DOMAIN created THEN created[x] ELSE n1[x]]
        calls == (IF rej THEN <<>> ELSE << <<n1, nf1>> >>)
                 \o (IF created = EmptyMap THEN <<>> ELSE << <<n2, nf1>> >>)
    IN  /\ CanSave(Len(calls))
        /\ nullifiers' = nf1
        /\ notes' = [x \in DOMAIN n2 |-> IF x \in DOMAIN final THEN final[x] ELSE n2[x]]
        /\ okSpends' = [x \in DOMAIN okSpends \cup DOMAIN created |->
                            IF x \in DOMAIN created THEN 0
                            ELSE IF x = c /\ ~rej THEN okSpends[x] + 1 ELSE okSpends[x]]
        /\ lastSpend' = Spent(base, nullifiers, c)
        /\ SaveAll(calls)

\* the withdrawal is confirmed (wd_send) or the relayer answers ok (rl_send):
\* the note is marked spent
WithdrawConfirmed(p) ==
    /\ pc[p] \in {"wd_send", "rl_send"}
    /\ SpendThenCreate(notes, op[p].note, EmptyMap, EmptyMap)
    /\ End(p, "ok")
    /\ storeFrame
    /\ UNCHANGED <<nextSecret, clientTree, sdkTree, treeFile>>
    /\ UNCHANGED relayVars
    /\ UNCHANGED <<encVars, auxVars>>

Signed(note) == [note EXCEPT !.tx = TxSig]

\* transferToWallet after the withdrawal is confirmed: spendNote, then the
\* change note, its leaf and the tree file
TransferConfirmed(p) ==
    /\ pc[p] = "tw_send"
    /\ LET c == op[p].note
           changeAmount == notes[c].amount - op[p].amount
           change == NewNote(changeAmount, notes[c].owner, NoTx)
       IN  IF changeAmount > 0
           THEN /\ nextSecret <= MaxNotes
                /\ SpendThenCreate(notes, c, change.commitment :> change,
                                      change.commitment :> Signed(change))
                /\ nextSecret' = nextSecret + 1
                /\ sdkTree' = TreeInsert(sdkTree, change.commitment)
                /\ treeFile' = sdkTree'
           ELSE /\ SpendThenCreate(notes, c, EmptyMap, EmptyMap)
                /\ UNCHANGED <<nextSecret, sdkTree, treeFile>>
    /\ End(p, "ok")
    /\ storeFrame
    /\ UNCHANGED clientTree
    /\ UNCHANGED relayVars
    /\ UNCHANGED <<encVars, auxVars>>

\* privateTransfer after the transaction is confirmed: the recipient's leaf
\* and txSignature, spendNote, then the change note, its leaf and the tree file
PrivateTransferConfirmed(p) ==
    /\ pc[p] = "pt_send"
    /\ LET c == op[p].note
           base == [notes EXCEPT ![op[p].made].tx = TxSig]
           tree1 == TreeInsert(sdkTree, op[p].made)
           changeAmount == notes[c].amount - op[p].amount
           change == NewNote(changeAmount, notes[c].owner, NoTx)
       IN  IF changeAmount > 0
           THEN /\ nextSecret <= MaxNotes
                /\ SpendThenCreate(base, c, change.commitment :> change,
                                            change.commitment :> Signed(change))
                /\ nextSecret' = nextSecret + 1
                /\ sdkTree' = TreeInsert(tree1, change.commitment)
                /\ treeFile' = sdkTree'
           ELSE /\ SpendThenCreate(base, c, EmptyMap, EmptyMap)
                /\ sdkTree' = tree1
                /\ treeFile' = sdkTree'
                /\ UNCHANGED nextSecret
    /\ End(p, "ok")
    /\ storeFrame
    /\ UNCHANGED clientTree
    /\ UNCHANGED relayVars
    /\ UNCHANGED <<encVars, auxVars>>

\* ------------------------------------------------------------------ relayer service (POST /relay-withdraw)

\* clock readings after the first, TickMs apart
MaxTicks == 2

MAX_REQUESTS_PER_MINUTE == 5

MAX_INSTRUCTION_SIZE == 10000

\* the window of checkRateLimit: now - time < 60000
RateWindowMs == 60000

\* 0.01 * LAMPORTS_PER_SOL
minBalance == 10000000

\* the largest amount accepted, 1000 * LAMPORTS_PER_SOL, in SOL (the amount of
\* a request body is kept in whole SOL)
MaxRelaySol == 1000

\* the clock is read half a window apart
TickMs == RateWindowMs \div 2

\* the fields the handler destructures from req.body
RequiredFields == {"poolAddress", "instructionData", "recipient", "amount", "nullifier"}

\* the body GhostPrivacySDK.withdrawViaRelayer posts: JSON.stringify of
\* {poolAddress, instructionData, recipient, amount}
sdkRelayBody(len, amount) ==
    Body({"poolAddress", "instructionData", "recipient", "amount"}, len, "valid", amount, "none")

SdkBodies == {sdkRelayBody(200, 1)}

\* request bodies sent to the relayer
Bodies ==
    {Body(RequiredFields, 200, "valid", 1, n) : n \in Nullifiers}
        \cup {Body(RequiredFields, MAX_INSTRUCTION_SIZE, "valid", 1, "nf1"),
              Body(RequiredFields, MAX_INSTRUCTION_SIZE + 1, "valid", 1, "nf1"),
              Body(RequiredFields \ {"poolAddress"}, MAX_INSTRUCTION_SIZE + 1, "valid", 1, "nf1"),
              Body(RequiredFields, 200, "invalid", 1, "nf2"),
              Body(RequiredFields, 200, "valid", MaxRelaySol + 1, "nf2"),
              Body(RequiredFields, 200, "valid", 0, "nf2")}
        \cup SdkBodies

\* balances connection.getBalance may return
Balances == {minBalance - 1, minBalance, minBalance + 1}

\* the request times kept without the filter
recentRequests_NoExpiry(requests, t) == requests

\* requests.filter(time => now - time < 60000)
recentRequests(requests, t) == SelectSeq(requests, LAMBDA time : t - time < RateWindowMs)

\* checkRateLimit without its limit
checkRateLimit_NoLimit(requests, t) == TRUE

\* checkRateLimit(ip): whether the request passes
checkRateLimit(requests, t) ==
    Len(recentRequests(requests, t)) < MAX_REQUESTS_PER_MINUTE

\* !poolAddress || !instructionData || !recipient || !amount || !nullifier
MissingParams(body) ==
    \/ body.fields # RequiredFields
    \/ body.len = 0
    \/ body.amount = 0

\* the checks the handler makes before its first await, with the replay
\* check moved before the rate limit
SyncChecks_ReplayFirst == <<"replay", "rate", "params", "size", "amount", "address">>

\* the checks the handler makes before its first await, in order
SyncChecks == <<"rate", "params", "size", "replay", "amount", "address">>

\* instructionData.length > MAX_INSTRUCTION_SIZE, never true
TooLarge_Never(body) == FALSE

\* instructionData.length > MAX_INSTRUCTION_SIZE
TooLarge(body) == body.len > MAX_INSTRUCTION_SIZE

\* whether a check of the handler rejects the request
CheckFails(check, ip, body) ==
    CASE check = "rate"    -> ~checkRateLimit(requestQueue[ip], now)
      [] check = "params"  -> MissingParams(body)
      [] check = "size"    -> TooLarge(body)
      [] check = "replay"  -> body.nullifier \in processedNullifiers
      [] check = "amount"  -> body.amount < 0 \/ body.amount > MaxRelaySol
      [] check = "address" -> body.recipient # "valid"

\* the response of the check that rejects
Rejection(check) ==
    CASE check = "rate"    -> "RateLimited"
      [] check = "params"  -> "MissingParams"
      [] check = "size"    -> "PayloadTooLarge"
      [] check = "replay"  -> "ReplayDetected"
      [] check = "amount"  -> "InvalidAmount"
      [] check = "address" -> "InvalidAddress"

\* position in SyncChecks of the first check that rejects, 0 when none does
FirstFailed(ip, body) ==
    LET F == {i \in 1..Len(SyncChecks) : CheckFails(SyncChecks[i], ip, body)}
    IN  IF F = {} THEN 0 ELSE CHOOSE i \in F : \A j \in F : i <= j

\* relayerBalance < minBalance, never true
Underfunded_Never(balance) == FALSE

\* relayerBalance < minBalance
Underfunded(balance) == balance < minBalance

\* the slot a new request takes: the lowest one that is free
FreeSlot(r) ==
    /\ rq[r].pc = "free"
    /\ \A q \in Reqs : q < r => rq[q].pc # "free"

\* the handler of slot r answers: its request, as it ends, is the last answered
Respond(r, req) ==
    /\ last' = req
    /\ rq' = [rq EXCEPT ![r] = NoReq]

relayFrame == UNCHANGED <<storeVars, sdkVars, encVars, auxVars>>

\* the handler from the request to its first await (connection.getBalance),
\* or to the response of the check that rejects
Receive(r, ip, body) ==
    /\ FreeSlot(r)
    /\ LET rateOk == checkRateLimit(requestQueue[ip], now)
           ff     == FirstFailed(ip, body)
           req    == [pc      |-> IF ff = 0 THEN "balance" ELSE "done",
                      body    |-> body,
                      stages  |-> IF ff = 0 THEN SyncChecks ELSE SubSeq(SyncChecks, 1, ff),
                      outcome |-> IF ff = 0 THEN "none" ELSE Rejection(SyncChecks[ff]),
                      late    |-> body.nullifier \in forwarded,
                      over    |-> Len(passedAt[ip]) >= MAX_REQUESTS_PER_MINUTE,
                      balance |-> 0]
       IN  /\ requestQueue' =
                IF rateOk
                THEN [requestQueue EXCEPT ![ip] = Append(recentRequests(@, now), now)]
                ELSE requestQueue
           /\ passedAt' = IF rateOk THEN [passedAt EXCEPT ![ip] = Append(@, now)] ELSE passedAt
           /\ IF ff = 0
              THEN rq' = [rq EXCEPT ![r] = req] /\ UNCHANGED last
              ELSE Respond(r, req)
    /\ UNCHANGED <<now, processedNullifiers, forwarded>>
    /\ relayFrame

\* connection.getBalance resolves: the balance check, then the instruction
\* is built from the payload and sendAndConfirmTransaction is called
BalanceRead(r, balance) ==
    /\ rq[r].pc = "balance"
    /\ IF Underfunded(balance)
       THEN /\ Respond(r, [rq[r] EXCEPT !.pc = "done", !.balance = balance,
                                         !.stages = Append(@, "balance"),
                                         !.outcome = "RelayerUnderfunded"])
            /\ UNCHANGED forwarded
       ELSE /\ rq' = [rq EXCEPT ![r].pc = "send", ![r].balance = balance,
                                ![r].stages = @ \o <<"balance", "decode", "forward">>]
            /\ forwarded' = forwarded \cup {rq[r].body.nullifier}
            /\ UNCHANGED last
    /\ UNCHANGED <<now, requestQueue, processedNullifiers, passedAt>>
    /\ relayFrame

\* connection.getBalance rejects: the catch block answers 500
BalanceFailed(r) ==
    /\ rq[r].pc = "balance"
    /\ Respond(r, [rq[r] EXCEPT !.pc = "done", !.outcome = "Failed"])
    /\ UNCHANGED <<now, requestQueue, processedNullifiers, passedAt, forwarded>>
    /\ relayFrame

\* sendAndConfirmTransaction resolves: the nullifier is recorded, {signature} answered
RelayConfirmed(r) ==
    /\ rq[r].pc = "send"
    /\ processedNullifiers' = processedNullifiers \cup {rq[r].body.nullifier}
    /\ Respond(r, [rq[r] EXCEPT !.pc = "done", !.outcome = "ok"])
    /\ UNCHANGED <<now, requestQueue, passedAt, forwarded>>
    /\ relayFrame

\* sendAndConfirmTransaction rejects: the catch block answers 500
RelayFailed(r) ==
    /\ rq[r].pc = "send"
    /\ Respond(r, [rq[r] EXCEPT !.pc = "done", !.outcome = "Failed"])
    /\ UNCHANGED <<now, requestQueue, processedNullifiers, passedAt, forwarded>>
    /\ relayFrame

\* time passes
Tick ==
    /\ now < MaxTicks * TickMs
    /\ now' = now + TickMs
    /\ passedAt' = [ip \in Origins |->
                        SelectSeq(passedAt[ip], LAMBDA time : now' - time < RateWindowMs)]
    /\ UNCHANGED <<requestQueue, processedNullifiers, rq, last, forwarded>>
    /\ relayFrame

\* ------------------------------------------------------------------ specifications

\* spend commits on notes of one process
NextSpend ==
    \/ \E a \in Amounts, o \in Owners, t \in TxArgs :
            nextSecret <= StoreNotes /\ CreateNote(a, o, t)
    \/ \E c \in DOMAIN okSpends : SpendNote(c, TxSig)
    \/ \E s \in pendingSaves : SaveComplete(s)

SpecSpend == Init /\ [][NextSpend]_vars

\* the note store with backups and reloads
NextStore ==
    \/ \E a \in Amounts, o \in Owners, t \in TxArgs :
            nextSecret <= StoreNotes /\ CreateNote(a, o, t)
    \/ \E c \in DOMAIN okSpends : SpendNote(c, TxSig)
    \/ \E s \in pendingSaves : SaveComplete(s)
    \/ ExportNotes
    \/ ImportNotes
    \/ Restart

SpecStore == Init /\ [][NextStore]_vars

\* no other SDK call is in flight
Alone(p) == \A q \in Procs \ {p} : pc[q] = Idle

\* the SDK calls of one process, each awaited before the next is made
NextSDK ==
    \/ \E p \in Procs, a \in Amounts, o \in Owners : Alone(p) /\ Deposit(p, a, o)
    \/ \E p \in Procs : DepositConfirmed(p)
    \/ \E p \in Procs : DepositFailed(p)
    \/ \E p \in Procs, c \in Handed, a \in Amounts : Alone(p) /\ Withdraw(p, c, a)
    \/ \E p \in Procs, c \in Handed, a \in Amounts : Alone(p) /\ TransferToWallet(p, c, a)
    \/ \E p \in Procs, c \in Handed, a \in Amounts : Alone(p) /\ WithdrawViaRelayer(p, c, a)
    \/ \E p \in Procs, c \in Handed, a \in Amounts, o \in Owners :
            Alone(p) /\ PrivateTransfer(p, c, o, a)
    \/ \E p \in Procs : ProofDone(p)
    \/ \E p \in Procs : ProofFailed(p)
    \/ \E p \in Procs : SendRejected(p)
    \/ \E p \in Procs : WithdrawConfirmed(p)
    \/ \E p \in Procs : TransferConfirmed(p)
    \/ \E p \in Procs : PrivateTransferConfirmed(p)
    \/ \E s \in pendingSaves : SaveComplete(s)

SpecSDK == Init /\ [][NextSDK]_vars

\* deposits, withdrawals and transfers to a wallet made concurrently: a call
\* may start while another is suspended at an await
NextConc ==
    \/ \E p \in Procs, a \in Amounts, o \in Owners :
            nextSecret <= ConcDeposits /\ Deposit(p, a, o)
    \/ \E p \in Procs : DepositConfirmed(p)
    \/ \E p \in Procs : DepositFailed(p)
    \/ \E p \in Procs, c \in Handed, a \in Amounts : Withdraw(p, c, a)
    \/ \E p \in Procs, c \in Handed, a \in Amounts : TransferToWallet(p, c, a)
    \/ \E p \in Procs, c \in Handed, a \in Amounts : WithdrawViaRelayer(p, c, a)
    \/ \E p \in Procs : ProofDone(p)
    \/ \E p \in Procs : ProofFailed(p)
    \/ \E p \in Procs : SendRejected(p)
    \/ \E p \in Procs : WithdrawConfirmed(p)
    \/ \E p \in Procs : TransferConfirmed(p)
    \/ \E s \in pendingSaves : SaveComplete(s)

SpecConc == Init /\ [][NextConc]_vars

\* deposits and transfers to a wallet, each awaited, with a restart of the
\* process between calls or while one is suspended
NextPersist ==
    \/ \E p \in Procs, a \in Amounts, o \in Owners :
            Alone(p) /\ nextSecret <= StoreNotes /\ Deposit(p, a, o)
    \/ \E p \in Procs : DepositConfirmed(p)
    \/ \E p \in Procs : DepositFailed(p)
    \/ \E p \in Procs, c \in Handed, a \in Amounts : Alone(p) /\ TransferToWallet(p, c, a)
    \/ \E p \in Procs : ProofDone(p)
    \/ \E p \in Procs : ProofFailed(p)
    \/ \E p \in Procs : SendRejected(p)
    \/ \E p \in Procs : TransferConfirmed(p)
    \/ \E s \in pendingSaves : SaveComplete(s)
    \/ Restart

SpecPersist == Init /\ [][NextPersist]_vars

\* the encrypted note store: processes started with either password, one
\* after the other, a process killed while it writes, damage to the file
NextEnc ==
    \/ \E a \in Amounts, t \in TxArgs :
            encrypted /\ nextSecret <= StoreNotes /\ CreateNote(a, "alice", t)
    \/ \E c \in DOMAIN okSpends : SpendNote(c, TxSig)
    \/ \E s \in pendingSaves : SaveComplete(s)
    \/ \E password \in Passwords : RestartWith(password)
    \/ \E s \in pendingSaves, left \in {"old", "part", "new"}, password \in Passwords :
            CrashInSave(s, left, password)
    \/ CorruptFile

SpecEnc == Init /\ [][NextEnc]_vars

\* EncryptedNoteStorage alone: notes saved, loaded with either password,
\* damaged on the disk and deleted
NextVault ==
    \/ \E a \in Amounts, t \in TxArgs :
            encrypted /\ nextSecret <= StoreNotes /\ CreateNote(a, "alice", t)
    \/ \E s \in pendingSaves : SaveComplete(s)
    \/ \E password \in Passwords : RestartWith(password)
    \/ CorruptFile
    \/ DeleteAll

SpecVault == Init /\ [][NextVault]_vars

\* the configuration manager: load() and reload() called in any order
NextConfig ==
    \/ LoadConfig
    \/ ReloadConfig

SpecConfig == InitConfig /\ [][NextConfig]_vars

\* a ShadowClient: deposits and withdrawals, each awaited
NextShadow ==
    \/ \E a \in Amounts : ShadowDeposit(a)
    \/ ShadowDepositSend
    \/ \E ok \in BOOLEAN : ShadowDepositEnd(ok)
    \/ \E a \in Amounts : ShadowWithdraw(a)
    \/ ShadowProofDone
    \/ ShadowProofFailed
    \/ ShadowWithdrawConfirmed
    \/ ShadowWithdrawRejected

SpecShadow == InitShadow /\ [][NextShadow]_vars

\* an encrypted note store: createNote and spendNote calls made while earlier
\* saves are still deriving their key
NextSaves ==
    \/ \E a \in Amounts, t \in TxArgs : nextSecret <= StoreNotes /\ CreateNote(a, "alice", t)
    \/ \E c \in DOMAIN okSpends : SpendNote(c, TxSig)
    \/ \E s \in pendingSaves : SaveComplete(s)

SpecSaves == InitSaves /\ [][NextSaves]_vars

\* calls of sendAndConfirm, one after the other
NextSend ==
    \/ SendAndConfirm
    \/ AwaitResolved
    \/ \E err \in SendErrors : AwaitRejected(err)
    \/ RetryTimer

SpecSend == Init /\ [][NextSend]_vars

\* every await settles and the timer fires
SpecSendFair ==
    /\ SpecSend
    /\ WF_vars(AwaitResolved \/ \E err \in SendErrors : AwaitRejected(err))
    /\ WF_vars(RetryTimer)

\* the ceremony coordinator: requests of participants and of the coordinator
NextCeremony ==
    \/ \E named \in BOOLEAN : Register(named)
    \/ \E id \in ParticipantIds : Download(id)
    \/ \E id \in ParticipantIds, file \in Uploads : Upload(id, file)
    \/ \E id \in ParticipantIds : UploadNothing(id)
    \/ \E authorized \in BOOLEAN : Initialize(authorized)
    \/ \E authorized \in BOOLEAN : FinalizePhase1(authorized)
    \/ \E authorized \in BOOLEAN : InitPhase2(authorized)

SpecCeremony == Init /\ [][NextCeremony]_vars

\* a request body with every required field, a valid recipient and an
\* instruction and amount within the limits
WellFormedBody == Body(RequiredFields, 200, "valid", 1, "nf1")

\* the relayer under load: well-formed requests for one nullifier, funded relayer
NextRate ==
    \/ \E r \in Reqs, ip \in Origins : Receive(r, ip, WellFormedBody)
    \/ \E r \in Reqs : BalanceRead(r, minBalance)
    \/ \E r \in Reqs : BalanceFailed(r)
    \/ \E r \in Reqs : RelayConfirmed(r)
    \/ \E r \in Reqs : RelayFailed(r)
    \/ Tick

SpecRate == Init /\ [][NextRate]_vars

\* the relayer: requests of any shape from one origin, handled concurrently,
\* within one reading of the clock
NextRelay ==
    \/ \E r \in Reqs, body \in Bodies : Receive(r, "ip1", body)
    \/ \E r \in Reqs, balance \in Balances : BalanceRead(r, balance)
    \/ \E r \in Reqs : BalanceFailed(r)
    \/ \E r \in Reqs : RelayConfirmed(r)
    \/ \E r \in Reqs : RelayFailed(r)

SpecRelay == Init /\ [][NextRelay]_vars

\* ------------------------------------------------------------------ note store properties

\* C1: for every note and every sequence of spendNote calls on it, at most one
\* call succeeds; every call after the first success is rejected and leaves
\* the notes and the nullifier set unchanged.
C1_SingleSpend ==
    /\ [](\A c \in DOMAIN okSpends : okSpends[c] <= 1)
    /\ [][\A c \in DOMAIN okSpends :
            (okSpends[c] >= 1 /\ SpendNote(c, TxSig))
                => (~lastSpend'.ok /\ notes' = notes /\ nullifiers' = nullifiers)]_vars

\* a spendNote call was rejected on a note that an earlier call had spent
C1_Witness ==
    /\ lastSpend.called
    /\ ~lastSpend.ok
    /\ lastSpend.c \in DOMAIN okSpends
    /\ okSpends[lastSpend.c] = 1

\* C4: in every reachable state of the note store, also after a save and a
\* load in a new process, a note has spent = true iff its nullifier is in the
\* spent-nullifier set.
C4_SpentIffNullifier ==
    \A c \in DOMAIN notes : notes[c].spent <=> isNullifierUsed(notes[c].nullifier)

\* C5: the spent-nullifier set is append-only across createNote, spendNote,
\* import and a save followed by a load in a new process.
C5_AppendOnly == [][nullifiers \subseteq nullifiers']_vars

\* C6: every spend of a note without a confirmation reference is rejected.
C6_UnconfirmedNotSpendable ==
    [][\A c \in DOMAIN notes :
        (~HasTx(notes[c]) /\ SpendNote(c, TxSig)) => ~lastSpend'.ok]_vars

\* ------------------------------------------------------------------ SDK properties

\* the call in slot p is a spend of note c suspended at an await
InFlight(p, c) == pc[p] \in ProvePcs \cup SendPcs /\ op[p].note = c

Reserved(c) == \E p \in Procs : InFlight(p, c)

\* C2: of two spend operations running concurrently on the same unspent note,
\* only one proceeds to proof generation and submission.
C2_OneSpendProceeds ==
    \A p, q \in Procs :
        (p # q /\ pc[p] \in ProvePcs \cup SendPcs /\ pc[q] \in ProvePcs \cup SendPcs)
            => op[p].note # op[q].note

\* C3: a withdrawal or transfer whose note's nullifier is already in the
\* spent-nullifier set when it is requested never reaches the ledger or a relayer.
C3_SpentNullifierNeverSent ==
    \A p \in Procs : pc[p] \in SendPcs => ~op[p].nfUsed

\* C7: the balance of an owner is the sum of amount over the owner's notes
\* that are confirmed, unspent and not reserved by an in-flight spend.
C7_BalanceExcludesReserved ==
    \A o \in Owners :
        getBalance(o) =
            SumAmounts(notes, {c \in DOMAIN notes :
                                  /\ notes[c].owner = o
                                  /\ ~notes[c].spent
                                  /\ HasTx(notes[c])
                                  /\ ~Reserved(c)})

\* C8: when proof generation fails, the operation it belongs to has not
\* added, removed or changed a note or a nullifier.
C8_ProofFailureLeavesStore ==
    [][\A p \in Procs :
        ProofFailed(p) => (~op[p].touched /\ notes' = notes /\ nullifiers' = nullifiers)]_vars

\* C9: when a withdrawal fails at proof generation, at the relayer or at the
\* ledger, its note ends unspent and spendable with its nullifier not recorded.
C9_FailedSpendLeavesNoteSpendable ==
    [][\A p \in Procs :
        (op[p].kind \in {"withdraw", "relayer"} /\ (ProofFailed(p) \/ SendRejected(p)))
            => /\ ~notes'[op[p].note].spent
               /\ ~(notes'[op[p].note].nullifier \in nullifiers')
               /\ HasTx(notes'[op[p].note])]_vars

\* C10: a deposit's commitment is in the accumulator only after the deposit
\* transaction is confirmed, and is not in it when the transaction fails.
C10_InsertAfterConfirm ==
    [][\A p \in Procs :
        /\ pc'[p] = "dep_send" => op'[p].leaf \notin Leaves(clientTree')
        /\ DepositFailed(p) => op[p].leaf \notin Leaves(clientTree')]_vars

\* C11: a note whose issuing transaction has confirmed (it carries its
\* txSignature) is seen by a process that loads the note store afterwards,
\* with its txSignature, and so counted in its owner's balance.
C11_ConfirmedPersisted ==
    [][Restart =>
        \A c \in DOMAIN notes :
            HasTx(notes[c]) => (c \in DOMAIN notes' /\ HasTx(notes'[c]))]_vars

\* C12: when a spend of less than the note's amount succeeds, a note of the
\* remainder is created for the note's owner.
C12_ChangeNoteOnPartialSpend ==
    [][\A p \in Procs :
        (/\ pc[p] \in SendPcs
         /\ pc'[p] = Idle
         /\ result'[p] = "ok"
         /\ op[p].amount < notes[op[p].note].amount)
            => \E c \in DOMAIN notes' \ DOMAIN notes :
                    /\ notes'[c].amount = notes[op[p].note].amount - op[p].amount
                    /\ notes'[c].owner = notes[op[p].note].owner]_vars

\* C13: a spend for more than the note's amount is rejected before its proof
\* is requested and before anything is submitted.
C13_InsufficientRejectedBeforeProof ==
    \A p \in Procs :
        pc[p] \in ProvePcs \cup SendPcs => op[p].amount <= notes[op[p].note].amount

\* ------------------------------------------------------------------ relayer properties

\* the checks and steps a request went through
Stages(q) == {q.stages[i] : i \in 1..Len(q.stages)}

\* the requests in the handler's hands, and the one answered last
Requests == {q \in {rq[r] : r \in Reqs} \cup {last} : q.pc # "free"}

\* C14: a request that arrives after a request with the same nullifier was
\* forwarded to the ledger is not forwarded.
C14_ReplayNotForwarded ==
    \A q \in Requests : q.late => "forward" \notin Stages(q)

\* C15: for every interleaving of concurrently handled requests, no two
\* requests with the same nullifier are at the ledger together.
C15_OneForwardPerNullifier ==
    \A r1, r2 \in Reqs :
        (r1 # r2 /\ rq[r1].pc = "send" /\ rq[r2].pc = "send")
            => rq[r1].body.nullifier # rq[r2].body.nullifier

\* C16: within any 60 seconds at most MAX_REQUESTS_PER_MINUTE requests of an
\* origin pass the rate check, and a request beyond that is answered
\* RateLimited with no other check made on it.
C16_RateLimit ==
    /\ \A ip \in Origins : Len(passedAt[ip]) <= MAX_REQUESTS_PER_MINUTE
    /\ \A q \in Requests : q.over => (q.outcome = "RateLimited" /\ q.stages = <<"rate">>)

\* a request of an origin that had used up its window was answered RateLimited
C16_Witness == last.pc = "done" /\ last.over /\ last.outcome = "RateLimited"

\* the checks named by the request state machine, as a request went through them
NamedStages(q) ==
    SelectSeq(q.stages, LAMBDA x : x \in {"rate", "replay", "balance", "forward"})

\* the check that answers with a rejection
RejectedAt(outcome) ==
    CASE outcome = "RateLimited"        -> "rate"
      [] outcome = "MissingParams"      -> "params"
      [] outcome = "PayloadTooLarge"    -> "size"
      [] outcome = "ReplayDetected"     -> "replay"
      [] outcome = "InvalidAmount"      -> "amount"
      [] outcome = "InvalidAddress"     -> "address"
      [] outcome = "RelayerUnderfunded" -> "balance"

\* C17: a request goes through rate limit, replay guard and balance check in
\* that order and is forwarded only after all three; a request rejected by a
\* check goes through no later check and is not forwarded.
C17_CheckOrder ==
    \A q \in Requests :
        /\ \E n \in 0..4 : NamedStages(q) = SubSeq(<<"rate", "replay", "balance", "forward">>, 1, n)
        /\ q.outcome \notin {"none", "ok", "Failed"}
            => /\ q.stages[Len(q.stages)] = RejectedAt(q.outcome)
               /\ "forward" \notin Stages(q)

\* a request was rejected by the replay guard after passing the rate limit
C17_Witness ==
    /\ last.pc = "done"
    /\ last.outcome = "ReplayDetected"
    /\ \E r \in Reqs : rq[r].pc = "send"

\* C18 as amended: a request is forwarded only when the balance read for it
\* is at least minBalance; at a lower balance it is answered
\* RelayerUnderfunded and not forwarded.
C18_ForwardAtLeastMinimum ==
    \A q \in Requests :
        "balance" \in Stages(q)
            => IF q.balance >= minBalance
               THEN "forward" \in Stages(q)
               ELSE q.outcome = "RelayerUnderfunded" /\ "forward" \notin Stages(q)

\* C18: a request is forwarded only when the balance read for it exceeds minBalance.
C18_ForwardOnlyAboveMinimum ==
    \A q \in Requests : "forward" \in Stages(q) => q.balance > minBalance

\* a request was answered RelayerUnderfunded at a balance one below the minimum
C18_Witness ==
    /\ last.pc = "done"
    /\ last.outcome = "RelayerUnderfunded"
    /\ last.balance = minBalance - 1

C20_SdkRequestPassesValidation ==
    \A q \in Requests : q.body \in SdkBodies => q.outcome # "MissingParams"

\* ------------------------------------------------------------------ encrypted store properties

\* C21: when notes.enc exists and cannot be decrypted, loading the note store
\* surfaces a decryption error to the caller (and so yields no note set).
C21_DecryptionErrorSurfaced ==
    (lastLoad.done /\ lastLoad.existed /\ lastLoad.res = "DecryptionError")
        => lastLoad.surfaced = "DecryptionError"

\* notes.enc is as a save wrote it; the running process cannot decrypt it, and
\* could not when it loaded
Undecryptable ==
    /\ encrypted
    /\ encFile.exists
    /\ lastSaved.by = "save"
    /\ lastLoad.res = "DecryptionError"
    /\ loadNotes(encFile, storagePassword).res # "ok"

\* C22: a process initialised with a password that cannot decrypt the
\* existing notes.enc never replaces that file's contents.
C22_FailedDecryptionKeepsFile ==
    [][\A s \in pendingSaves : (Undecryptable /\ SaveComplete(s)) => encFile' = encFile]_vars

C24_NeverHalfWritten == encFile.exists => encFile.whole

EnvVarOf ==
    [environment |-> "GHOST_ENV", rpcUrl |-> "GHOST_RPC_URL", programId |-> "GHOST_PROGRAM_ID",
     commitment |-> "GHOST_COMMITMENT", transferCircuit |-> "GHOST_TRANSFER_CIRCUIT",
     balanceCircuit |-> "GHOST_BALANCE_CIRCUIT", ringSignatureCircuit |-> "GHOST_RING_SIG_CIRCUIT",
     transferVK |-> "GHOST_TRANSFER_VK", balanceVK |-> "GHOST_BALANCE_VK",
     ringSignatureVK |-> "GHOST_RING_SIG_VK", enabled |-> "GHOST_RELAYER_ENABLED",
     endpoints |-> "GHOST_RELAYER_ENDPOINTS", minReputation |-> "GHOST_MIN_REPUTATION",
     timeout |-> "GHOST_RELAYER_TIMEOUT", requireCeremonyComplete |-> "GHOST_REQUIRE_CEREMONY",
     ceremonyVerificationHash |-> "GHOST_CEREMONY_HASH", encryptNotes |-> "GHOST_ENCRYPT_NOTES",
     maxTransactionRetries |-> "GHOST_MAX_RETRIES"]

\* the default of each configuration field
DefaultOf ==
    [environment |-> "devnet", rpcUrl |-> getDefaultRpcUrl(procEnv), programId |-> "",
     commitment |-> "confirmed", transferCircuit |-> "", balanceCircuit |-> "",
     ringSignatureCircuit |-> "", transferVK |-> "", balanceVK |-> "", ringSignatureVK |-> "",
     enabled |-> FALSE, endpoints |-> <<>>, minReputation |-> 50, timeout |-> 30000,
     requireCeremonyComplete |-> FALSE, ceremonyVerificationHash |-> "", encryptNotes |-> TRUE,
     maxTransactionRetries |-> 3]

\* the value an environment variable gives to a field
FromEnv(field, str) ==
    CASE field \in {"enabled", "requireCeremonyComplete", "encryptNotes"} -> str = "true"
      [] field \in {"minReputation", "timeout", "maxTransactionRetries"} -> parseInt(str)
      [] field = "endpoints" -> split(str)
      [] OTHER -> str

\* environment variable, else file, else default
Precedence(field) ==
    IF EnvVarOf[field] \in DOMAIN procEnv THEN FromEnv(field, procEnv[EnvVarOf[field]])
    ELSE IF configFile.exists /\ field \in DOMAIN configFile.value THEN configFile.value[field]
    ELSE DefaultOf[field]

\* C29: every field of the loaded configuration is the environment variable's
\* value when the variable is set, otherwise the file's value when present,
\* otherwise the default.
C29_EnvThenFileThenDefault ==
    config.cached => \A field \in DOMAIN EnvVarOf : config.value[field] = Precedence(field)

\* C30: every load() call throws or returns a configuration that passes
\* validation.
C30_LoadValidOrThrows ==
    (lastConfigLoad.called /\ ~lastConfigLoad.threw)
        => validationErrors(lastConfigLoad.value) = {}

\* ------------------------------------------------------------------ ShadowClient properties

\* C26: no Withdraw instruction and no relayer request that the client sends
\* out contains the commitment it spends.
C26_SpentCommitmentNotPublished ==
    \A m \in published :
        m.kind \in {"Withdraw", "RelayRequest"}
            => (m.root # m.spends /\ m.commitment # m.spends)

\* ------------------------------------------------------------------ nullifier derivation

\* the notes of the store: commitment, secret and the nullifier derived for it
StoredNotes ==
    {[commitment |-> notes[c].commitment, secret |-> notes[c].secret,
      nullifier |-> notes[c].nullifier] : c \in DOMAIN notes}

\* the change notes of the withdrawals whose instruction has been sent: the
\* new commitment, the secret it is derived from and the nullifier of that secret
ChangeNotes ==
    {[commitment |-> changeCommitment(notes[op[p].note]),
      secret |-> notes[op[p].note].secret,
      nullifier |-> generateNullifier(notes[op[p].note].secret)] :
        p \in {q \in Procs : pc[q] \in {"wd_send", "rl_send"} /\ op[q].note \in DOMAIN notes}}

\* C27: two notes with distinct (commitment, secret) pairs have distinct
\* nullifiers, and the nullifier stored with a note is the one derived again
\* from the note.
C27_NullifierOfCommitmentAndSecret ==
    /\ \A c \in DOMAIN notes : notes[c].nullifier = generateNullifier(notes[c].secret)
    /\ \A a, b \in StoredNotes \cup ChangeNotes :
            <<a.commitment, a.secret>> # <<b.commitment, b.secret>> => a.nullifier # b.nullifier

\* ------------------------------------------------------------------ spend rejections

\* C28: a rejected spend returns to its caller the condition that failed.
C28_RejectionNamesItsCause ==
    (lastSpend.called /\ ~lastSpend.ok) => lastSpend.returned = lastSpend.cause

\* ------------------------------------------------------------------ ceremony properties

\* what the coordinator holds of the ceremony
Ceremony == <<ceremonyState, currentDir>>

\* C31: an upload changes the ceremony (participant verified, file made
\* current, turn advanced) only for a contribution that snarkjs finds valid;
\* an upload of a contribution that is not valid leaves the ceremony as it was.
C31_AcceptedOnlyIfVerified ==
    [][\A id \in ParticipantIds, file \in Uploads :
          (Upload(id, file) /\ ~file.valid)
              => (Ceremony' = Ceremony /\ lastRequest'.status # 200)]_vars

\* a contribution was rejected by verification after another was accepted
C31_Witness ==
    /\ lastRequest.kind = "upload"
    /\ lastRequest.error = "Contribution verification failed"
    /\ \E i \in 1..Len(ceremonyState.participants) : ceremonyState.participants[i].verified

C33_NoteCommitmentIsLeaf ==
    [][\A p \in Procs :
          DepositConfirmed(p)
              => (op[p].made = op[p].leaf
                    /\ findCommitmentIndex(sdkTree', op[p].made) # -1)]_vars

\* the leaf inserted for note c by the client's deposit
DepositLeaf(c) == clientCommitment(notes[c].amount, notes[c].secret)

\* C34: the leaf at the index for which a withdrawal requests its Merkle
\* proof is the commitment of the note it spends, as the note holds it or as
\* its deposit inserted it.
C34_ProofForNoteLeaf ==
    \A p \in Procs :
        (pc[p] \in {"wd_prove", "tw_prove"} /\ op[p].note \in DOMAIN notes)
            => clientTree[clientFindCommitmentIndex(clientTree, op[p].note) + 1]
                    \in {op[p].note, DepositLeaf(op[p].note)}

\* s is an initial part of t
IsPrefix(s, t) == Len(s) <= Len(t) /\ \A i \in 1..Len(s) : t[i] = s[i]

\* C35: every write of the tree file keeps the leaves of the file it
\* replaces, in their order.
C35_TreeFileOnlyGrows == [][IsPrefix(treeFile, treeFile')]_vars

\* ------------------------------------------------------------------ save ordering

\* C36: with no save in flight, notes.enc decrypts to the notes of the
\* in-memory map.
C36_PersistedEqualsMemory ==
    (encrypted /\ pendingSaves = {} /\ encFile.exists)
        => loadNotes(encFile, storagePassword) = [res |-> "ok", notes |-> notes]

\* ------------------------------------------------------------------ rate-limit window

\* C37: a request of an origin whose oldest counted request is 60 seconds old
\* or older passes the rate check, and a request answered RateLimited leaves
\* the counted requests of every origin as they were.
C37_AdmittedAfterWindow ==
    [][\A r \in Reqs, ip \in Origins :
          LET requests == requestQueue[ip]
              limited == rq'[r].pc = "free" /\ last'.outcome = "RateLimited"
          IN  Receive(r, ip, WellFormedBody)
                => /\ (requests # <<>> /\ now - requests[1] >= RateWindowMs) => ~limited
                   /\ limited => requestQueue' = requestQueue]_vars

\* the first origin was rate-limited and, a window after its requests, admitted
C37_Witness ==
    /\ now = RateWindowMs
    /\ last.outcome = "RateLimited"
    /\ requestQueue["ip2"] = <<>>
    /\ requestQueue["ip1"] = <<now>>

\* ------------------------------------------------------------------ sendAndConfirm properties

C39_WithdrawFromDepositPool ==
    \A w \in published, d \in published :
        (w.kind \in {"Withdraw", "RelayRequest"} /\ d.kind = "Deposit"
            /\ d.commitment = w.spends)
            => w.pool = d.pool

====
